---- MODULE Spec2Model ----
(***************************************************************************)
(* A model of the AgentX runtime of ComfyUI-Copilot:                       *)
(*   - RuntimeContainer  (backend/agentx/runtime_v2/container.py)          *)
(*   - the tool loop of the HTTP/WebSocket handlers (backend/agentx/api/   *)
(*     server.py)                                                          *)
(*   - RuntimeAgent with its Interactor, Driver and Presenter, and the     *)
(*     ClaudeReceptor / ClaudeEffector pair (runtime_v2/agent.py,          *)
(*     runtime_v2/environment.py), on a synchronous SystemBus.             *)
(* Each subsystem has its own specification; the variables of the other    *)
(* subsystems stay at their initial values.                                *)
(***************************************************************************)
EXTENDS Integers, Sequences, FiniteSets, TLC

VARIABLES
    \* ---- RuntimeContainer ----
    agents,           \* RuntimeContainer._agents: the registered agent ids
    image_to_agent,   \* RuntimeContainer._image_to_agent: image id -> agent id
    sessions,         \* RuntimeContainer._sessions: the session ids held
    next_id,          \* the next fresh uuid (agent_<n> / session_<n>)
    last_call,        \* the last completed container call and what it returned
    ncalls,           \* number of container calls completed
    runtime_agents,   \* the RuntimeAgent objects created: lifecycle, the driver's subscription
    rt_containers,    \* Runtime._containers: the ids of the containers it holds
    rt_shutdown,      \* Runtime._is_shutdown
    \* ---- tool loop of comfy_send_message_handler / process_message_streaming ----
    loop_pc,          \* position of the handler
    iteration,        \* local variable iteration
    tool_calls,       \* len(response.tool_calls) of the current response
    executed_tools,   \* len(all_executed_tools), capped
    \* ---- RuntimeAgent, Environment, SystemBus ----
    lifecycle,        \* RuntimeAgent._lifecycle
    state,            \* RuntimeAgent._state
    messages,         \* AgentSession.messages
    observed,         \* events delivered to an on_any subscriber registered after the agent
    tasks,            \* the asyncio tasks created by ClaudeEffector._handle_user_message
    current_task,     \* ClaudeEffector._current_task (0 = None, else index in tasks)
    receptor,         \* ClaudeReceptor's cursor fields
    feeding,          \* fragments the running synchronous section of _send still has to feed
    complete_pending, \* BusDriver._handle_event between _on_stream_event and _on_stream_complete
    driver_subscribed,\* whether the BusDriver subscription is still on the bus
    last_error,       \* the exception the last call on the agent raised ("none" if it returned)
    \* ---- legacy Container (one session) and its HTTP handlers ----
    l_state,          \* AgentSession.state
    l_messages,       \* AgentSession.messages
    l_lock,           \* Container._locks[session_id]: the holder and the queue of waiters
    l_fed,            \* the Anthropic messages of the last AgentEngine.generate call
    hs,               \* the handlers: position, HTTP status, iteration, tool_results
    \* ---- the bus shared with other agents ----
    bus_last,         \* the last event emitted on the bus by another component
    \* ---- SystemBusImpl with arbitrary subscribers ----
    b_subs,           \* SystemBusImpl._subscriptions (the list it is bound to now)
    b_next_id,        \* SystemBusImpl._next_id
    b_destroyed,      \* SystemBusImpl._is_destroyed
    b_stack,          \* the _dispatch calls in progress, innermost last
    b_calls,          \* the handler calls made since the last emit from outside
    b_runs,           \* subscription id -> number of calls of its handler
    b_nemits,         \* number of emits made from outside
    b_raised,         \* whether the last emit raised to its caller
    b_gone,           \* the subscription ids a handler has unsubscribed
    \* ---- legacy EventBus ----
    eb_queue,         \* EventBus._queue
    eb_subscribers,   \* EventBus._subscribers: event type -> list of handlers
    eb_session_subscribers, \* EventBus._session_subscribers: session id -> event types
    eb_running,       \* EventBus._running
    eb_loop,          \* the task of _consume_loop: position, event in hand, list index
    eb_pub,           \* the tasks calling publish: position and event
    eb_reader,        \* the iterators of consume() of the WebSocket handlers
    eb_yielded,       \* the events each iterator has yielded
    eb_dispatched,    \* the handler calls of _consume_loop
    eb_nput,          \* number of events put in the queue so far
    eb_task_done      \* number of calls of Queue.task_done so far

rtVars == <<rt_containers, rt_shutdown>>
containerVars == <<agents, image_to_agent, sessions, next_id, last_call, ncalls,
                   runtime_agents, rtVars>>
loopVars == <<loop_pc, iteration, tool_calls, executed_tools>>
agentVars == <<lifecycle, state, messages, observed, tasks, current_task,
               receptor, feeding, complete_pending, driver_subscribed, last_error>>
legacyVars == <<l_state, l_messages, l_lock, l_fed, hs>>
busVars == <<b_subs, b_next_id, b_destroyed, b_stack, b_calls, b_runs, b_nemits, b_raised,
             b_gone>>
ebVars == <<eb_queue, eb_subscribers, eb_session_subscribers, eb_running, eb_loop, eb_pub,
           eb_reader, eb_yielded, eb_dispatched, eb_nput, eb_task_done>>
otherVars == <<legacyVars, bus_last, busVars, ebVars>>
vars == <<containerVars, loopVars, agentVars, otherVars>>

(***************************************************************************)
(* Bounds of the model                                                     *)
(***************************************************************************)
MaxAgents == 3
MaxCalls == 5
MaxToolCalls == 2
MaxTurns == 2
MaxBlocks == 2
MaxObserved == 9
MaxRounds == 1
MaxSubs == 2
MaxEmits == 2
MaxPublish == 3
MaxHandlers == 2
maxsize == 2

Images == {"img1", "img2"}
Callers == {"c1", "c2"}
NoAgent == 0
EmptyDict == [x \in {} |-> NoAgent]

(***************************************************************************)
(* The tool loop of the handlers in api/server.py                          *)
(***************************************************************************)
max_iterations == 200

InitLoop ==
    /\ loop_pc = "start"
    /\ iteration = 0
    /\ tool_calls = 0
    /\ executed_tools = 0

\* response = await container.send_message(...): the backend answers with any
\* number of tool calls, or the call raises
SendMessage ==
    /\ loop_pc = "start"
    /\ \/ \E n \in 0..MaxToolCalls : tool_calls' = n /\ loop_pc' = "loop"
       \/ tool_calls' = tool_calls /\ loop_pc' = "failed"
    /\ UNCHANGED <<iteration, executed_tools, containerVars, agentVars, otherVars>>

\* while response.tool_calls and iteration < max_iterations
LoopGuardMutant == tool_calls > 0 /\ iteration <= max_iterations
LoopGuard == tool_calls > 0 /\ iteration < max_iterations

Min(a, b) == IF a < b THEN a ELSE b

\* one pass of the loop body: every tool call of the response is executed (ok of
\* them succeed, the others raise and are answered with an error result), then
\* the results are submitted and the backend answers again, or raises
LoopIteration ==
    /\ loop_pc = "loop"
    /\ LoopGuard
    /\ iteration' = iteration + 1
    /\ \E ok \in 0..tool_calls :
         executed_tools' = Min(executed_tools + ok, MaxToolCalls)
    /\ \/ \E n \in 0..MaxToolCalls : tool_calls' = n /\ loop_pc' = "loop"
       \/ tool_calls' = tool_calls /\ loop_pc' = "failed"
    /\ UNCHANGED <<containerVars, agentVars, otherVars>>

\* the loop condition is false: the handler returns response.to_dict()
LoopExit ==
    /\ loop_pc = "loop"
    /\ ~LoopGuard
    /\ loop_pc' = "done"
    /\ UNCHANGED <<iteration, tool_calls, executed_tools, containerVars, agentVars, otherVars>>

(***************************************************************************)
(* SystemBus events                                                        *)
(***************************************************************************)
Texts == {"4"}
Contents == {"2+2?"}
ToolIds == {"t1"}
NoRequest == 0

\* EventContext.agent_id of an event: this agent's id, another agent's id, no
\* context at all (context=None), or an EventContext() whose agent_id is None
SelfId == "agent_1"
OtherId == "agent_2"
NoContext == "no_context"
EmptyContext == "empty_context"

\* SystemEvent: type, source, broadcastable, request_id and the payload fields
Ev(type, source, bc, rid) ==
    [type |-> type, source |-> source, broadcastable |-> bc, request_id |-> rid,
     context |-> SelfId, state |-> "", text |-> "", index |-> -1, tool |-> "", stop_reason |-> ""]

\* RuntimeAgent._emit_state_change: source agent, broadcastable, data = the state
StateChange(s) == [Ev("state_change", "agent", TRUE, NoRequest) EXCEPT !.state = s]

DRIVEABLE_TYPES ==
    {"message_start", "message_delta", "message_stop",
     "text_content_block_start", "text_delta", "text_content_block_stop",
     "tool_use_content_block_start", "input_json_delta", "tool_use_content_block_stop",
     "tool_result", "interrupted", "error_received"}

\* BusDriver._is_driveable_for_agent
IsDriveableAnyAgent(e) ==
    /\ e.source = "environment"
    /\ e.type \in DRIVEABLE_TYPES
IsDriveable(e) ==
    /\ e.source = "environment"
    /\ e.type \in DRIVEABLE_TYPES
    /\ e.context # NoContext
    /\ e.context = SelfId

\* BusDriver._to_stream_event followed by BusPresenter.present: only the text,
\* the tool id, the stop reason and the error message survive the flattening;
\* the event is re-emitted with source agent, broadcastable, no request id
Presented(e) ==
    [Ev(e.type, "agent", TRUE, NoRequest) EXCEPT
        !.text = IF e.type \in {"text_delta", "error_received"} THEN e.text ELSE "",
        !.tool = IF e.type = "tool_use_content_block_start" THEN e.tool ELSE "",
        !.stop_reason = IF e.type = "message_stop" THEN e.stop_reason ELSE ""]

\* RuntimeAgent._handle_stream_event: the processing state after the event
NewStateNoDone(s, type) ==
    CASE type = "message_start" -> "responding"
      [] type = "tool_use_content_block_start" -> "calling_tool"
      [] type = "error_received" -> "error"
      [] OTHER -> s
NewState(s, type) ==
    CASE type = "message_start" -> "responding"
      [] type = "tool_use_content_block_start" -> "calling_tool"
      [] type = "message_stop" -> "done"
      [] type = "error_received" -> "error"
      [] OTHER -> s

StateChangingTypes ==
    {"message_start", "tool_use_content_block_start", "message_stop", "error_received"}

\* what _handle_stream_event emits for an accepted event: the state change (if
\* any) and then the presented event
DriverEmits(e) ==
    (IF e.type \in StateChangingTypes
        THEN <<StateChange(NewState(state, e.type))>> ELSE <<>>)
    \o <<Presented(e)>>

\* the later subscriber (on_event of the chat handler) queues only the events
\* that carry this agent's id
OnEventAccepts(e) == e.context # NoContext /\ e.context = SelfId

\* SystemBusImpl._dispatch calls the handlers in subscription order: the
\* Effector's, the Driver's, then the later subscriber's. What the Driver emits
\* while handling e is dispatched completely before the later subscriber gets e.
ObservedFor(e) ==
    (IF driver_subscribed /\ IsDriveable(e) THEN DriverEmits(e) ELSE <<>>)
    \o (IF OnEventAccepts(e) THEN <<e>> ELSE <<>>)

\* BusDriver._handle_event: _on_stream_complete follows for these two types
CompletionOf(e) ==
    IF driver_subscribed /\ IsDriveable(e) /\ e.type \in {"message_stop", "interrupted"}
    THEN e.type ELSE "none"

\* one emit of an environment event: the bus dispatches it synchronously
EmitEnv(e) ==
    /\ observed' = observed \o ObservedFor(e)
    /\ state' = IF driver_subscribed /\ IsDriveable(e) THEN NewState(state, e.type) ELSE state
    /\ complete_pending' = CompletionOf(e)

(***************************************************************************)
(* ClaudeReceptor                                                          *)
(***************************************************************************)
InitReceptor ==
    [block_type |-> "none", block_index |-> 0, tool_id |-> "", last_stop_reason |-> ""]

\* a fragment fed by the Effector
Frag(type, rid) ==
    [type |-> type, request_id |-> rid, context |-> tasks[rid].context,
     index |-> 0, block_type |-> "",
     id |-> "", delta_type |-> "", text |-> "", stop_reason |-> ""]

\* ClaudeReceptor._process_stream_event: the cursor after the fragment
ReceptorAfter(r, f) ==
    CASE f.type = "message_start" ->
           [r EXCEPT !.block_type = "none", !.block_index = 0, !.tool_id = ""]
      [] f.type = "content_block_start" ->
           [r EXCEPT !.block_index = f.index,
                     !.block_type = IF f.block_type \in {"text", "tool_use"}
                                    THEN f.block_type ELSE r.block_type,
                     !.tool_id = IF f.block_type = "tool_use" THEN f.id ELSE r.tool_id]
      [] f.type = "content_block_stop" ->
           [r EXCEPT !.block_type = "none", !.tool_id = ""]
      [] f.type = "message_delta" ->
           [r EXCEPT !.last_stop_reason =
                IF f.stop_reason # "" THEN f.stop_reason ELSE r.last_stop_reason]
      [] f.type = "message_stop" ->
           [r EXCEPT !.last_stop_reason = ""]
      [] OTHER -> r

EnvEv(type, f) ==
    [Ev(type, "environment", FALSE, f.request_id) EXCEPT !.context = f.context]

\* ClaudeReceptor._process_stream_event: the events emitted for the fragment
\* (none or one)
ReceptorEmits(r, f) ==
    CASE f.type = "message_start" -> <<EnvEv("message_start", f)>>
      [] f.type = "content_block_start" /\ f.block_type = "text" ->
           <<[EnvEv("text_content_block_start", f) EXCEPT !.index = f.index]>>
      [] f.type = "content_block_start" /\ f.block_type = "tool_use" ->
           <<[EnvEv("tool_use_content_block_start", f) EXCEPT !.tool = f.id]>>
      [] f.type = "content_block_delta" /\ f.delta_type = "text_delta" ->
           <<[EnvEv("text_delta", f) EXCEPT !.text = f.text]>>
      [] f.type = "content_block_delta" /\ f.delta_type = "input_json_delta" ->
           <<EnvEv("input_json_delta", f)>>
      [] f.type = "content_block_stop" /\ r.block_type = "tool_use" ->
           <<[EnvEv("tool_use_content_block_stop", f) EXCEPT !.tool = r.tool_id]>>
      [] f.type = "content_block_stop" /\ r.block_type # "tool_use" ->
           <<[EnvEv("text_content_block_stop", f) EXCEPT !.index = r.block_index]>>
      [] f.type = "message_stop" ->
           <<[EnvEv("message_stop", f) EXCEPT !.stop_reason =
                IF r.last_stop_reason # "" THEN r.last_stop_reason ELSE "end_turn"]>>
      [] OTHER -> <<>>

(***************************************************************************)
(* The SDK's answer to query(): a stream of messages                       *)
(***************************************************************************)
TextBlock(t) == [kind |-> "text", text |-> t, id |-> ""]
ToolUseBlock(i) == [kind |-> "tool_use", text |-> "", id |-> i]
Blocks == {TextBlock(t) : t \in Texts} \cup {ToolUseBlock(i) : i \in ToolIds}

SeqsUpTo(S, n) == UNION {[1..k -> S] : k \in 1..n}

\* AssistantMessage(content), a StreamEvent carrying a text delta, or a
\* SystemMessage / UserMessage / ResultMessage (which feed nothing)
SDKMessages ==
    {[kind |-> "assistant", content |-> c, text |-> ""] : c \in SeqsUpTo(Blocks, MaxBlocks)}
    \cup {[kind |-> "stream_text", content |-> <<>>, text |-> t] : t \in Texts}
    \cup {[kind |-> "other", content |-> <<>>, text |-> ""]}

(***************************************************************************)
(* ClaudeEffector._send                                                    *)
(***************************************************************************)
\* the fragments fed for block b at enumerate index i when has_content is hc
BlockFrags(b, i, hc, rid) ==
    IF b.kind = "text"
    THEN (IF ~hc
          THEN <<[Frag("content_block_start", rid) EXCEPT !.index = i, !.block_type = "text"]>>
          ELSE <<>>)
         \o <<[Frag("content_block_delta", rid) EXCEPT
                  !.index = i, !.delta_type = "text_delta", !.text = b.text],
              [Frag("content_block_stop", rid) EXCEPT !.index = i]>>
    ELSE <<[Frag("content_block_start", rid) EXCEPT
                  !.index = i, !.block_type = "tool_use", !.id = b.id],
           [Frag("content_block_stop", rid) EXCEPT !.index = i]>>

\* has_content after the blocks content[1..k]
HasContentAfter(content, k, hc) ==
    hc \/ \E j \in 1..k : content[j].kind = "text"

\* for i, block in enumerate(msg.content), from the k-th block on
RECURSIVE ContentFrags(_, _, _, _)
ContentFrags(content, k, hc, rid) ==
    IF k > Len(content) THEN <<>>
    ELSE BlockFrags(content[k], k - 1, hc, rid)
         \o ContentFrags(content, k + 1, hc \/ content[k].kind = "text", rid)

\* the fragments _send feeds for one message of the SDK
MsgFrags(msg, hc, rid) ==
    CASE msg.kind = "assistant" -> ContentFrags(msg.content, 1, hc, rid)
      [] msg.kind = "stream_text" /\ msg.text # "" ->
           <<[Frag("content_block_delta", rid) EXCEPT
                 !.index = 0, !.delta_type = "text_delta", !.text = msg.text]>>
      [] OTHER -> <<>>

NewTask ==
    [status |-> "pending", cancel_requested |-> FALSE, has_content |-> FALSE,
     after |-> "awaiting", context |-> SelfId]

\* asyncio.Task.done()
TaskDone(t) == tasks[t].status \in {"done", "cancelled", "failed"}

\* no synchronous section is running: the event loop picks the next callback
Quiet == feeding = <<>> /\ complete_pending = "none"

\* the host's calls and the SDK's messages and failures are taken only while the
\* log is shorter than the bound; a task's first step and its completion, of
\* which each task has one, are not limited
Room == Len(observed) < MaxObserved

InitAgent ==
    /\ lifecycle = "running"
    /\ state = "idle"
    /\ messages = <<>>
    /\ observed = <<>>
    /\ tasks = <<>>
    /\ current_task = 0
    /\ receptor = InitReceptor
    /\ feeding = <<>>
    /\ complete_pending = "none"
    /\ driver_subscribed = TRUE
    /\ last_error = "none"

\* the first step of the task: up to the first suspension in `async for msg in query(...)`
TaskStart(t) ==
    /\ Quiet
    /\ tasks[t].status = "pending" /\ ~tasks[t].cancel_requested
    /\ feeding' = <<Frag("message_start", t)>>
    /\ tasks' = [tasks EXCEPT ![t].status = "running", ![t].after = "awaiting"]
    /\ UNCHANGED <<lifecycle, state, messages, observed, current_task, receptor,
                   complete_pending, driver_subscribed, last_error, containerVars, loopVars, otherVars>>

\* the SDK yields a message: the body of the loop runs up to the next suspension
TaskRecv(t, msg) ==
    /\ Quiet
    /\ Room
    /\ tasks[t].status = "awaiting" /\ ~tasks[t].cancel_requested
    /\ LET frags == MsgFrags(msg, tasks[t].has_content, t)
           hc == IF msg.kind = "assistant"
                 THEN HasContentAfter(msg.content, Len(msg.content), tasks[t].has_content)
                 ELSE tasks[t].has_content
       IN /\ feeding' = frags
          /\ tasks' = [tasks EXCEPT
                ![t].status = IF frags = <<>> THEN "awaiting" ELSE "running",
                ![t].after = "awaiting",
                ![t].has_content = hc]
    /\ UNCHANGED <<lifecycle, state, messages, observed, current_task, receptor,
                   complete_pending, driver_subscribed, last_error, containerVars, loopVars, otherVars>>

\* the SDK's stream ends: message_delta(end_turn) and message_stop are fed and
\* the task returns
TaskComplete(t) ==
    /\ Quiet
    /\ tasks[t].status = "awaiting" /\ ~tasks[t].cancel_requested
    /\ feeding' = <<[Frag("message_delta", t) EXCEPT !.stop_reason = "end_turn"],
                    Frag("message_stop", t)>>
    /\ tasks' = [tasks EXCEPT ![t].status = "running", ![t].after = "done"]
    /\ UNCHANGED <<lifecycle, state, messages, observed, current_task, receptor,
                   complete_pending, driver_subscribed, last_error, containerVars, loopVars, otherVars>>

\* ClaudeReceptor.feed of the next fragment of the running section
FeedStep ==
    /\ feeding # <<>>
    /\ complete_pending = "none"
    /\ LET f == Head(feeding)
           emits == ReceptorEmits(receptor, f)
       IN /\ receptor' = ReceptorAfter(receptor, f)
          /\ IF emits = <<>>
             THEN UNCHANGED <<observed, state, complete_pending>>
             ELSE EmitEnv(emits[1])
          /\ feeding' = Tail(feeding)
          /\ tasks' = IF Tail(feeding) = <<>>
                      THEN [tasks EXCEPT ![f.request_id].status = tasks[f.request_id].after]
                      ELSE tasks
    /\ UNCHANGED <<lifecycle, messages, current_task, driver_subscribed, last_error,
                   containerVars, loopVars, otherVars>>

\* except Exception: the exception is caught, so the task ends without one
ErrorOutcomeRaised == "failed"
ErrorOutcome == "done"

\* except Exception: the import or the SDK raised; emit_error, and the task returns
TaskError(t) ==
    /\ Quiet
    /\ Room
    /\ tasks[t].status \in {"pending", "awaiting"} /\ ~tasks[t].cancel_requested
    /\ EmitEnv([Ev("error_received", "environment", FALSE, t) EXCEPT
                   !.text = "sdk_error", !.context = tasks[t].context])
    /\ tasks' = [tasks EXCEPT ![t].status = ErrorOutcome]
    /\ UNCHANGED <<lifecycle, messages, current_task, receptor, feeding,
                   driver_subscribed, last_error, containerVars, loopVars, otherVars>>

\* except asyncio.CancelledError: raise
CancelOutcomeSuppressed == "done"
CancelOutcome == "cancelled"

\* the event loop delivers the cancellation at the task's suspension point (or
\* drops a task that never started)
TaskCancelled(t) ==
    /\ Quiet
    /\ tasks[t].status \in {"pending", "awaiting"} /\ tasks[t].cancel_requested
    /\ tasks' = [tasks EXCEPT ![t].status = CancelOutcome]
    /\ UNCHANGED <<lifecycle, state, messages, observed, current_task, receptor, feeding,
                   complete_pending, driver_subscribed, last_error, containerVars, loopVars, otherVars>>

\* BusDriver._handle_event, after _on_stream_event: RuntimeAgent._handle_stream_complete
StateAfterCompleteMutant == state
StateAfterComplete == "idle"

DriverStreamComplete ==
    /\ complete_pending # "none"
    /\ state' = StateAfterComplete
    /\ complete_pending' = "none"
    /\ UNCHANGED <<lifecycle, messages, observed, tasks, current_task, receptor, feeding,
                   driver_subscribed, last_error, containerVars, loopVars, otherVars>>

(***************************************************************************)
(* RuntimeAgent: the calls of the host                                     *)
(***************************************************************************)
UserMessage(content, rid) == [Ev("user_message", "agent", TRUE, rid) EXCEPT !.text = content]

\* RuntimeAgent.receive then AgentInteractor.receive: what is emitted, in order
ReceiveEmitsMutant(content, rid) == <<UserMessage(content, rid), StateChange("thinking")>>
ReceiveEmits(content, rid) == <<StateChange("thinking"), UserMessage(content, rid)>>

\* if self._lifecycle != AgentLifecycle.RUNNING: raise RuntimeError(...)
CanReceiveUnlessDestroyed == lifecycle # "destroyed"
CanReceive == lifecycle = "running"

\* the message of the RuntimeError that receive raises
CannotSend(lc) ==
    IF lc = "stopped"
    THEN "RuntimeError: Cannot send message to stopped agent"
    ELSE "RuntimeError: Cannot send message to destroyed agent"

CannotStop == "RuntimeError: Cannot stop destroyed agent"
CannotResume == "RuntimeError: Cannot resume destroyed agent"

Receive(content) ==
    /\ Quiet
    /\ Room
    /\ Len(tasks) < MaxTurns
    /\ IF ~CanReceive
       THEN /\ last_error' = CannotSend(lifecycle)
            /\ UNCHANGED <<state, observed, messages, tasks, current_task>>
       ELSE LET rid == Len(tasks) + 1
            IN /\ state' = "thinking"
               /\ observed' = observed \o ReceiveEmits(content, rid)
               /\ messages' = Append(messages, [role |-> "user", content |-> content])
               \* ClaudeEffector._handle_user_message
               /\ tasks' = Append(tasks, NewTask)
               /\ current_task' = rid
               /\ last_error' = "none"
    /\ UNCHANGED <<lifecycle, receptor, feeding, complete_pending, driver_subscribed,
                   containerVars, loopVars, otherVars>>

NumInterrupts == Cardinality({k \in DOMAIN observed : observed[k].type = "interrupt"})

\* self._current_task and not self._current_task.done()
InFlight == current_task # 0 /\ ~TaskDone(current_task)

\* RuntimeAgent.interrupt -> AgentInteractor.interrupt -> ClaudeEffector._handle_interrupt
Interrupt ==
    /\ Quiet
    /\ Room
    /\ LET interrupt == Ev("interrupt", "agent", TRUE, NoRequest)
           interrupted == [Ev("interrupted", "environment", FALSE, current_task) EXCEPT
                              !.context = tasks[current_task].context]
       IN IF InFlight
          THEN /\ tasks' = [tasks EXCEPT ![current_task].cancel_requested = TRUE]
               /\ observed' = observed \o ObservedFor(interrupted) \o <<interrupt>>
               /\ complete_pending' = CompletionOf(interrupted)
          ELSE /\ observed' = Append(observed, interrupt)
               /\ UNCHANGED <<tasks, complete_pending>>
    /\ last_error' = "none"
    /\ UNCHANGED <<lifecycle, state, messages, current_task, receptor, feeding,
                   driver_subscribed, containerVars, loopVars, otherVars>>

Stop ==
    /\ Quiet
    /\ IF lifecycle = "destroyed"
       THEN last_error' = CannotStop /\ UNCHANGED lifecycle
       ELSE last_error' = "none" /\ lifecycle' = "stopped"
    /\ UNCHANGED <<state, messages, observed, tasks, current_task, receptor, feeding,
                   complete_pending, driver_subscribed, containerVars, loopVars, otherVars>>

Resume ==
    /\ Quiet
    /\ IF lifecycle = "destroyed"
       THEN last_error' = CannotResume /\ UNCHANGED lifecycle
       ELSE last_error' = "none" /\ lifecycle' = "running"
    /\ UNCHANGED <<state, messages, observed, tasks, current_task, receptor, feeding,
                   complete_pending, driver_subscribed, containerVars, loopVars, otherVars>>

\* RuntimeAgent.destroy: BusDriver.dispose, ClaudeEnvironment.dispose -> ClaudeEffector.dispose
Destroy ==
    /\ Quiet
    /\ IF lifecycle # "destroyed"
       THEN /\ driver_subscribed' = FALSE
            /\ tasks' = IF InFlight
                        THEN [tasks EXCEPT ![current_task].cancel_requested = TRUE]
                        ELSE tasks
            /\ lifecycle' = "destroyed"
       ELSE UNCHANGED <<driver_subscribed, tasks, lifecycle>>
    /\ last_error' = "none"
    /\ UNCHANGED <<state, messages, observed, current_task, receptor, feeding,
                   complete_pending, containerVars, loopVars, otherVars>>

(***************************************************************************)
(* The bus is shared: events of other agents and of other components       *)
(***************************************************************************)
NoEvent == Ev("none", "system", FALSE, NoRequest)

InitShared == bus_last = NoEvent

\* an event emitted by another component: type, source and context
Foreign(type, source, ctx) ==
    [Ev(type, source, FALSE, NoRequest) EXCEPT !.context = ctx]

ForeignEvents ==
    {Foreign("message_stop", "environment", c) : c \in {OtherId, NoContext}}
    \cup {Foreign(t, "agent", c) : t \in {"user_message", "interrupt"},
                                   c \in {OtherId, NoContext}}

\* ClaudeEffector._handle_user_message and _handle_interrupt: the filter
\* `if event.context and event.context.agent_id != self.config.agent_id: return`
EffectorAccepts(e) == ~(e.context # NoContext /\ e.context # SelfId)

\* context=event.context or EventContext()
MetaContext(e) == IF e.context = NoContext THEN EmptyContext ELSE e.context

\* SystemBus.emit of an event of another component: the Effector's handlers,
\* the Driver and the later subscriber get it, in this order
BusEmit(e) ==
    /\ Quiet
    /\ Room
    /\ bus_last' = e
    /\ IF e.type = "user_message" /\ EffectorAccepts(e)
       THEN /\ Len(tasks) < MaxTurns
            /\ tasks' = Append(tasks, [NewTask EXCEPT !.context = MetaContext(e)])
            /\ current_task' = Len(tasks) + 1
            /\ observed' = observed \o ObservedFor(e)
            /\ UNCHANGED <<state, complete_pending>>
       ELSE IF e.type = "interrupt" /\ EffectorAccepts(e) /\ InFlight
       THEN LET interrupted ==
                   [Ev("interrupted", "environment", FALSE, current_task) EXCEPT
                       !.context = tasks[current_task].context]
            IN /\ tasks' = [tasks EXCEPT ![current_task].cancel_requested = TRUE]
               /\ observed' = observed \o ObservedFor(interrupted) \o ObservedFor(e)
               /\ complete_pending' = CompletionOf(interrupted)
               /\ UNCHANGED <<state, current_task>>
       ELSE /\ EmitEnv(e)
            /\ UNCHANGED <<tasks, current_task>>
    /\ UNCHANGED <<lifecycle, messages, receptor, feeding, driver_subscribed, last_error,
                   legacyVars, busVars, ebVars, containerVars, loopVars>>

(***************************************************************************)
(* Legacy Container (runtime/container.py), one session, driven by         *)
(* comfy_send_message_handler (api/server.py)                              *)
(***************************************************************************)
Handlers == {"h1", "h2"}
NoHandler == "none"
KnownTools == {"get_workflow"}
ToolNames == KnownTools \cup {"no_such_tool"}
LegacyTexts == {"ok"}

\* values of ToolCall.result: None, the dict a tool returns, the dict
\* {"error": str(e)} the handler builds
None == [kind |-> "none", value |-> ""]
DictOf(v) == [kind |-> "dict", value |-> v]
ErrorDict(msg) == [kind |-> "error_dict", value |-> msg]
NoError == "None"

\* runtime.types.ToolCall as AgentEngine.generate builds it
ToolCall(id, name) ==
    [id |-> id, name |-> name, arguments |-> "args", result |-> None, error |-> NoError]

\* runtime.types.Message: role, content and tool_calls (None is the empty list)
LegacyMessage(role, content, tcs) == [role |-> role, content |-> content, tool_calls |-> tcs]

InitLegacy ==
    /\ l_state = "idle"
    /\ l_messages = <<>>
    /\ l_lock = [holder |-> NoHandler, waiters |-> <<>>]
    /\ l_fed = <<>>
    /\ hs = [p \in Handlers |->
               [pc |-> "start", status |-> 0, iteration |-> 0, response |-> 0,
                tool_results |-> <<>>]]

\* async with self._locks[session_id]: asyncio.Lock serves its waiters in order
LockAcquire(lock, p) ==
    IF lock.holder = NoHandler
    THEN [lock EXCEPT !.holder = p]
    ELSE [lock EXCEPT !.waiters = Append(@, p)]

LockRelease(lock) ==
    IF lock.waiters = <<>>
    THEN [lock EXCEPT !.holder = NoHandler]
    ELSE [holder |-> Head(lock.waiters), waiters |-> Tail(lock.waiters)]

\* str(tc.result)
StrOf(r) == [str_of |-> r]

\* AgentEngine._convert_messages: the content blocks of one message
TextBlocks(msg) ==
    IF msg.content # "" THEN <<[type |-> "text", text |-> msg.content]>> ELSE <<>>

ToolBlock(tc) ==
    IF tc.result # None
    THEN [type |-> "tool_result", tool_use_id |-> tc.id, content |-> StrOf(tc.result)]
    ELSE [type |-> "tool_use", id |-> tc.id, name |-> tc.name, input |-> tc.arguments]

\* the content is the list of blocks (when it is empty, msg.content, which is
\* then the empty string, stands in its place: the empty sequence here)
ConvertMessages(msgs) ==
    [k \in 1..Len(msgs) |->
        [role |-> msgs[k].role,
         content |-> TextBlocks(msgs[k])
                     \o [i \in 1..Len(msgs[k].tool_calls) |-> ToolBlock(msgs[k].tool_calls[i])]]]

\* execute_comfyui_tool: a known tool returns its dict, an unknown name raises
ExecuteTool(name) ==
    IF name \in KnownTools
    THEN [raised |-> FALSE, value |-> "workflow"]
    ELSE [raised |-> TRUE, value |-> "Unknown tool"]

\* the body of `for tc in response.tool_calls`: what it leaves in tc
TcAfterExec(tc) ==
    IF ExecuteTool(tc.name).raised
    THEN [tc EXCEPT !.error = ExecuteTool(tc.name).value]
    ELSE [tc EXCEPT !.result = DictOf(ExecuteTool(tc.name).value)]

\* ... and what it appends to tool_results
ToolResultOf(tc) ==
    [tool_call_id |-> tc.id,
     result |-> IF ExecuteTool(tc.name).raised
                THEN ErrorDict(ExecuteTool(tc.name).value)
                ELSE DictOf(ExecuteTool(tc.name).value)]

\* comfy_send_message_handler up to `async with` in Container.send_message
HandlerStart(p) ==
    /\ hs[p].pc = "start"
    /\ l_lock' = LockAcquire(l_lock, p)
    /\ hs' = [hs EXCEPT ![p].pc = "wait_send"]
    /\ UNCHANGED <<l_state, l_messages, l_fed, bus_last, busVars, ebVars, containerVars, loopVars, agentVars>>

\* the states in which send_message raises ValueError
SendRejectsClosed(session_state) == session_state = "closed"
SendRejects(session_state) == session_state \in {"closed", "processing"}

\* Container.send_message inside the lock, up to `await self.agent_engine.generate`
SendEnter(p, content) ==
    /\ hs[p].pc = "wait_send"
    /\ l_lock.holder = p
    /\ IF SendRejects(l_state)
       THEN /\ l_lock' = LockRelease(l_lock)
            /\ hs' = [hs EXCEPT ![p].pc = "failed", ![p].status = 404]
            /\ UNCHANGED <<l_state, l_messages, l_fed>>
       ELSE /\ l_state' = "processing"
            /\ l_messages' = Append(l_messages, LegacyMessage("user", content, <<>>))
            /\ l_fed' = ConvertMessages(l_messages')
            /\ hs' = [hs EXCEPT ![p].pc = "gen_send"]
            /\ UNCHANGED l_lock
    /\ UNCHANGED <<bus_last, busVars, ebVars, containerVars, loopVars, agentVars>>

\* the ids of the tool_use blocks of a response are fresh
NewToolId(i) == 10 * (Len(l_messages) + 1) + i

\* the Message AgentEngine.generate returns
Generated(text, names) ==
    LegacyMessage("assistant", text,
                  [i \in 1..Len(names) |-> ToolCall(NewToolId(i), names[i])])

\* the responses with tool calls the session holds so far
NumToolTurns ==
    Cardinality({k \in DOMAIN l_messages :
                    l_messages[k].role = "assistant" /\ l_messages[k].tool_calls # <<>>})

\* generate returns: the rest of send_message / submit_tool_results, which
\* leaves the lock, and the handler's `while` test
GenerateReturns(p, text, names) ==
    /\ hs[p].pc \in {"gen_send", "gen_submit"}
    /\ names # <<>> => NumToolTurns < MaxRounds
    /\ LET response == Generated(text, names)
           loops == response.tool_calls # <<>> /\ hs[p].iteration < max_iterations
       IN /\ l_state' = IF response.tool_calls # <<>> THEN "waiting_for_tool" ELSE "idle"
          /\ l_messages' = Append(l_messages, response)
          /\ l_lock' = LockRelease(l_lock)
          /\ hs' = IF loops
                   THEN [hs EXCEPT ![p].pc = "tools", ![p].response = Len(l_messages')]
                   ELSE [hs EXCEPT ![p].pc = "done", ![p].status = 200]
    /\ UNCHANGED <<l_fed, bus_last, busVars, ebVars, containerVars, loopVars, agentVars>>

\* the body of the handler's `while`: the for loop over response.tool_calls,
\* which writes tc.result / tc.error into the Message object the session
\* holds, then the call of submit_tool_results up to its `async with`
ExecuteTools(p) ==
    /\ hs[p].pc = "tools"
    /\ LET k == hs[p].response
           tcs == l_messages[k].tool_calls
       IN /\ l_messages' = IF l_state = "closed"
                          THEN l_messages   \* the session object left the cache
                          ELSE [l_messages EXCEPT ![k].tool_calls =
                                   [i \in 1..Len(tcs) |-> TcAfterExec(tcs[i])]]
          /\ hs' = [hs EXCEPT
                      ![p].pc = "wait_submit",
                      ![p].iteration = @ + 1,
                      ![p].tool_results = [i \in 1..Len(tcs) |-> ToolResultOf(tcs[i])]]
    /\ l_lock' = LockAcquire(l_lock, p)
    /\ UNCHANGED <<l_state, l_fed, bus_last, busVars, ebVars, containerVars, loopVars, agentVars>>

\* Container.close_session: it takes the lock and has no await inside it
CloseSession ==
    /\ l_lock.holder = NoHandler
    /\ l_state # "closed"
    /\ l_state' = "closed"
    /\ UNCHANGED <<l_messages, l_lock, l_fed, hs, bus_last, busVars, ebVars, containerVars,
                   loopVars, agentVars>>

\* generate raises: send_message sets ERROR and re-raises, submit_tool_results
\* has no handler; the HTTP handler answers 500
GenerateRaises(p) ==
    /\ hs[p].pc \in {"gen_send", "gen_submit"}
    /\ l_state' = IF hs[p].pc = "gen_send" THEN "error" ELSE l_state
    /\ l_lock' = LockRelease(l_lock)
    /\ hs' = [hs EXCEPT ![p].pc = "failed", ![p].status = 500]
    /\ UNCHANGED <<l_messages, l_fed, bus_last, busVars, ebVars, containerVars, loopVars, agentVars>>

\* for msg in reversed(session.messages): the last assistant message with tool calls
LastAssistantWithTools(msgs) ==
    LET S == {k \in 1..Len(msgs) : msgs[k].role = "assistant" /\ msgs[k].tool_calls # <<>>}
    IN IF S = {} THEN 0 ELSE CHOOSE k \in S : \A j \in S : j <= k

\* result_map = {tr["tool_call_id"]: tr["result"] for tr in tool_results}
InResultMap(trs, id) == \E i \in 1..Len(trs) : trs[i].tool_call_id = id

ResultMap(trs, id) ==
    LET S == {i \in 1..Len(trs) : trs[i].tool_call_id = id}
    IN trs[CHOOSE i \in S : \A j \in S : j <= i].result

HasResult(tc) == tc.result # None

\* ToolCall(id=tc.id, name=tc.name, arguments=tc.arguments, result=tc.result)
WithResultCopied(tc) == tc
WithResult(tc) ==
    [id |-> tc.id, name |-> tc.name, arguments |-> tc.arguments,
     result |-> tc.result, error |-> NoError]

\* Container.submit_tool_results inside the lock, up to `await ...generate`
SubmitEnter(p) ==
    /\ hs[p].pc = "wait_submit"
    /\ l_lock.holder = p
    /\ LET k == LastAssistantWithTools(l_messages)
       IN IF l_state # "waiting_for_tool" \/ k = 0
          THEN /\ l_lock' = LockRelease(l_lock)
               /\ hs' = [hs EXCEPT ![p].pc = "failed", ![p].status = 404]
               /\ UNCHANGED <<l_state, l_messages, l_fed>>
          ELSE LET tcs == l_messages[k].tool_calls
                   trs == hs[p].tool_results
                   updated == [i \in 1..Len(tcs) |->
                                 IF InResultMap(trs, tcs[i].id)
                                 THEN [tcs[i] EXCEPT !.result = ResultMap(trs, tcs[i].id)]
                                 ELSE tcs[i]]
                   sel == SelectSeq(updated, HasResult)
                   tool_result_message ==
                       LegacyMessage("user", "", [i \in 1..Len(sel) |-> WithResult(sel[i])])
               IN /\ l_messages' = Append([l_messages EXCEPT ![k].tool_calls = updated],
                                          tool_result_message)
                  /\ l_state' = "processing"
                  /\ l_fed' = ConvertMessages(l_messages')
                  /\ hs' = [hs EXCEPT ![p].pc = "gen_submit"]
                  /\ UNCHANGED l_lock
    /\ UNCHANGED <<bus_last, busVars, ebVars, containerVars, loopVars, agentVars>>

(***************************************************************************)
(* SystemBusImpl (runtime_v2/system_bus.py) with arbitrary subscribers.    *)
(* _dispatch is re-entrant: a handler that emits starts a nested dispatch  *)
(* before the outer one goes on, so the dispatches in progress are a       *)
(* stack of frames.  A frame iterates the list object self._subscriptions  *)
(* was bound to when its for loop started: _remove_subscription rebinds    *)
(* self._subscriptions to a new list and leaves that object untouched,     *)
(* while append and sort change it in place.                               *)
(***************************************************************************)
EventTypes == {"a", "b"}
Wildcard == "*"
OnTypes == {"a"}
Priorities == {0, 1}
HandlerKinds == {"returns", "raises", "emits"}
\* a handler of kind "emits" emits an event of type EmittedType while it
\* handles an event of another type
EmittedType == "b"
NoFilter == "none"
Filters == {NoFilter}

Subscription(id, event_type, handler, filter, priority, once) ==
    [id |-> id, event_type |-> event_type, handler |-> handler, filter |-> filter,
     priority |-> priority, once |-> once]

SubscribeOptions(filter, priority, once) ==
    [filter |-> filter, priority |-> priority, once |-> once]

InitBus ==
    /\ b_subs = <<>>
    /\ b_next_id = 0
    /\ b_destroyed = FALSE
    /\ b_stack = <<>>
    /\ b_calls = <<>>
    /\ b_runs = [id \in 0..(MaxSubs + 3 * MaxAgents - 1) |-> 0]
    /\ b_nemits = 0
    /\ b_raised = FALSE
    /\ b_gone = {}

matches_type(subscription_type, event_type) ==
    IF subscription_type = Wildcard THEN TRUE ELSE subscription_type = event_type

FilterPasses(filter, event_type) == filter = NoFilter

Matches(sub, event_type) ==
    matches_type(sub.event_type, event_type) /\ FilterPasses(sub.filter, event_type)

\* list.sort(key=priority, reverse=True): stable, so equal priorities keep
\* the order they had in the list
sort_unsorted(l) == l
sort_by_priority(l) ==
    LET RECURSIVE ByPriority(_)
        ByPriority(p) ==
            IF p < 0 THEN <<>>
            ELSE SelectSeq(l, LAMBDA s : s.priority = p) \o ByPriority(p - 1)
        Top == IF l = <<>> THEN 0
               ELSE CHOOSE p \in {l[i].priority : i \in DOMAIN l} :
                       \A i \in DOMAIN l : l[i].priority <= p
    IN ByPriority(Top)

remove_subscription(l, sub_id) == SelectSeq(l, LAMBDA s : s.id # sub_id)

RECURSIVE RemoveAll(_, _)
RemoveAll(l, ids) ==
    IF ids = <<>> THEN l ELSE RemoveAll(remove_subscription(l, Head(ids)), Tail(ids))

\* the list a frame iterates
FrameList(f) == IF f.aliased THEN b_subs ELSE f.detached

\* self._subscriptions is rebound: the frames that were iterating the old
\* object keep it
DetachNone(stack) == stack
Detach(stack) ==
    [i \in DOMAIN stack |->
        IF stack[i].aliased
        THEN [stack[i] EXCEPT !.aliased = FALSE, !.detached = b_subs]
        ELSE stack[i]]

Frame(seq, event_type) ==
    [seq |-> seq, type |-> event_type, aliased |-> TRUE, detached |-> <<>>,
     idx |-> 1, to_remove |-> <<>>,
     at_emit |-> {b_subs[i] : i \in DOMAIN b_subs}, gone |-> b_gone]

BusIdle == b_stack = <<>>

Subscribe(event_type, handler, opts) ==
    /\ BusIdle
    /\ b_next_id < MaxSubs
    /\ IF b_destroyed
       THEN UNCHANGED <<b_subs, b_next_id>>
       ELSE /\ b_subs' = sort_by_priority(Append(b_subs,
                            Subscription(b_next_id, event_type, handler, opts.filter,
                                         opts.priority, opts.once)))
            /\ b_next_id' = b_next_id + 1
    /\ UNCHANGED <<b_destroyed, b_stack, b_calls, b_runs, b_nemits, b_raised,
                   b_gone, ebVars, bus_last, legacyVars, containerVars, loopVars, agentVars>>

On(event_type, handler, opts) == Subscribe(event_type, handler, opts)

OnAny(handler, opts) == Subscribe(Wildcard, handler, opts)

Once(event_type, handler) ==
    On(event_type, handler, SubscribeOptions(NoFilter, 0, TRUE))

\* the callable on / on_any returned, called between two emits
Unsubscribe(sub_id) ==
    /\ BusIdle
    /\ sub_id < b_next_id
    /\ b_subs' = remove_subscription(b_subs, sub_id)
    /\ UNCHANGED <<b_next_id, b_destroyed, b_stack, b_calls, b_runs, b_nemits, b_raised,
                   b_gone, ebVars, bus_last, legacyVars, containerVars, loopVars, agentVars>>

BusDestroy ==
    /\ BusIdle
    /\ IF b_destroyed
       THEN UNCHANGED <<b_subs, b_destroyed>>
       ELSE /\ b_destroyed' = TRUE
            /\ b_subs' = <<>>
    /\ UNCHANGED <<b_next_id, b_stack, b_calls, b_runs, b_nemits, b_raised,
                   b_gone, ebVars, bus_last, legacyVars, containerVars, loopVars, agentVars>>

\* emit called by a component that is not a handler
Emit(event_type) ==
    /\ BusIdle
    /\ b_nemits < MaxEmits
    /\ b_nemits' = b_nemits + 1
    /\ b_calls' = <<>>
    /\ b_raised' = FALSE
    /\ b_stack' = IF b_destroyed THEN <<>> ELSE <<Frame(1, event_type)>>
    /\ UNCHANGED <<b_subs, b_next_id, b_destroyed, b_runs,
                   b_gone, ebVars, bus_last, legacyVars, containerVars, loopVars, agentVars>>

TopFrame == b_stack[Len(b_stack)]
AtSub == FrameList(TopFrame)[TopFrame.idx]
Advanced(f, sub) ==
    [f EXCEPT !.idx = f.idx + 1,
              !.to_remove = IF sub.once THEN Append(f.to_remove, sub.id)
                            ELSE f.to_remove]
\* number of emits made by handlers since the last emit from outside
NestedSoFar == Len(SelectSeq(b_calls, LAMBDA c : c.nested))

\* the for loop of _dispatch passes a subscription that does not match
DispatchSkip ==
    /\ ~BusIdle
    /\ TopFrame.idx <= Len(FrameList(TopFrame))
    /\ ~Matches(AtSub, TopFrame.type)
    /\ b_stack' = [b_stack EXCEPT ![Len(b_stack)].idx = TopFrame.idx + 1]
    /\ UNCHANGED <<b_subs, b_next_id, b_destroyed, b_calls, b_runs, b_nemits, b_raised,
                   b_gone, ebVars, bus_last, legacyVars, containerVars, loopVars, agentVars>>

HandlerErrorEscapes == FALSE
HandlerErrorCaught == TRUE

\* what the handlers of a re-entrant subscriber do besides returning: call
\* the unsubscribe callable of their own subscription, of the one created
\* just before or just after it, subscribe a new on_any handler with a low
\* or a high priority, destroy the bus, or unsubscribe themselves and then
\* destroy the bus
UnsubKinds == {"unsub_self", "unsub_prev", "unsub_next"}
SubscribeKinds == {"subscribes_low", "subscribes_high"}
DestroyKind == "destroys"
LeaveDestroyKind == "unsub_self_destroys"

UnsubTarget(sub) ==
    CASE sub.handler \in {"unsub_self", LeaveDestroyKind} -> sub.id
      [] sub.handler = "unsub_prev" -> sub.id - 1
      [] sub.handler = "unsub_next" -> sub.id + 1

SubscribedPriority(sub) == IF sub.handler = "subscribes_high" THEN 1 ELSE 0

\* the for loop of _dispatch calls the handler of a matching subscription;
\* what the handler does to the bus is done before the loop goes on
DispatchCall ==
    /\ ~BusIdle
    /\ TopFrame.idx <= Len(FrameList(TopFrame))
    /\ Matches(AtSub, TopFrame.type)
    /\ LET sub == AtSub
           emits == /\ sub.handler = "emits"
                    /\ TopFrame.type # EmittedType
                    /\ ~b_destroyed
           unsubs == /\ sub.handler \in UnsubKinds \cup {LeaveDestroyKind}
                     /\ UnsubTarget(sub) \in 0..(b_next_id - 1)
           subscribes == /\ sub.handler \in SubscribeKinds
                         /\ ~b_destroyed
                         /\ b_next_id < MaxSubs
           destroys == sub.handler \in {DestroyKind, LeaveDestroyKind} /\ ~b_destroyed
           outer == [b_stack EXCEPT ![Len(b_stack)] = Advanced(TopFrame, sub)]
       IN /\ b_calls' = Append(b_calls, [sub |-> sub.id, seq |-> TopFrame.seq,
                                          nested |-> emits])
          /\ b_runs' = [b_runs EXCEPT ![sub.id] = @ + 1]
          /\ IF sub.handler = "raises" /\ ~HandlerErrorCaught
             THEN /\ b_stack' = <<>>
                  /\ b_raised' = TRUE
             ELSE /\ b_stack' = IF emits
                                THEN Append(outer, Frame(NestedSoFar + 2, EmittedType))
                                ELSE IF unsubs THEN Detach(outer) ELSE outer
                  /\ UNCHANGED b_raised
          /\ b_subs' = IF destroys THEN <<>>
                       ELSE IF unsubs THEN remove_subscription(b_subs, UnsubTarget(sub))
                       ELSE IF subscribes
                       THEN sort_by_priority(Append(b_subs,
                               Subscription(b_next_id, Wildcard, "returns", NoFilter,
                                            SubscribedPriority(sub), FALSE)))
                       ELSE b_subs
          /\ b_next_id' = IF subscribes THEN b_next_id + 1 ELSE b_next_id
          /\ b_destroyed' = (b_destroyed \/ destroys)
          /\ b_gone' = IF unsubs THEN b_gone \cup {UnsubTarget(sub)} ELSE b_gone
    /\ UNCHANGED <<b_nemits, ebVars, bus_last, legacyVars, containerVars, loopVars, agentVars>>

\* the for loop is over: the once subscriptions it called are removed
DispatchReturn ==
    /\ ~BusIdle
    /\ TopFrame.idx > Len(FrameList(TopFrame))
    /\ LET rest == SubSeq(b_stack, 1, Len(b_stack) - 1)
       IN IF TopFrame.to_remove = <<>>
          THEN /\ b_stack' = rest
               /\ UNCHANGED b_subs
          ELSE /\ b_subs' = RemoveAll(b_subs, TopFrame.to_remove)
               /\ b_stack' = Detach(rest)
    /\ UNCHANGED <<b_next_id, b_destroyed, b_calls, b_runs, b_nemits, b_raised,
                   b_gone, ebVars, bus_last, legacyVars, containerVars, loopVars, agentVars>>

(***************************************************************************)
(* RuntimeContainer                                                        *)
(***************************************************************************)
InitContainer ==
    /\ agents = {}
    /\ image_to_agent = EmptyDict
    /\ sessions = {}
    /\ next_id = 1
    /\ last_call = [op |-> "none", caller |-> "c1", image |-> "img1",
                    agent |-> NoAgent, flag |-> FALSE]
    /\ ncalls = 0
    /\ runtime_agents = EmptyDict
    /\ rt_containers = {}
    /\ rt_shutdown = FALSE

\* image.image_id in self._image_to_agent, and self._agents.get(agent_id) is truthy
ReusableMutant(img) == FALSE
Reusable(img) ==
    /\ img \in DOMAIN image_to_agent
    /\ image_to_agent[img] \in agents

\* dict update d[k] = v
DictSet(d, k, v) == [x \in (DOMAIN d) \cup {k} |-> IF x = k THEN v ELSE d[x]]
\* del d[k]
DictKept(d, k) == d
DictDel(d, k) == [x \in (DOMAIN d) \ {k} |-> d[x]]

Returned(c, op, img, a, flag) ==
    /\ last_call' = [op |-> op, caller |-> c, image |-> img, agent |-> a, flag |-> flag]
    /\ ncalls' = ncalls + 1

\* the callable `lambda: None` that on / on_any return on a destroyed bus
NoSubscription == 0 - 1

\* SystemBusImpl.on / on_any with the default options, as the components of
\* an agent call it
SubscribeOn(subs, id, event_type, handler) ==
    sort_by_priority(Append(subs, Subscription(id, event_type, handler, NoFilter, 0, FALSE)))

\* RuntimeAgent.__init__: ClaudeEffector.connect subscribes its two handlers,
\* then BusDriver.__init__ subscribes to every event
Connected(subs, id) ==
    SubscribeOn(SubscribeOn(SubscribeOn(subs, id, "user_message", "effector_user_message"),
                            id + 1, "interrupt", "effector_interrupt"),
                id + 2, Wildcard, "driver")

\* the RuntimeAgent object: its lifecycle and the subscription BusDriver._unsubscribe removes
RuntimeAgent(id) ==
    [lifecycle |-> "running",
     driver_sub |-> IF b_destroyed THEN NoSubscription ELSE id + 2]

\* RuntimeAgent.destroy on the agent objects S: BusDriver.dispose unsubscribes
\* the driver, ClaudeEffector.dispose cancels the task
DriversOf(S) == {runtime_agents[a].driver_sub : a \in S}
DisposedNothing(subs, S) == subs
Disposed(subs, S) ==
    LET live == {a \in S : runtime_agents[a].lifecycle # "destroyed"}
    IN SelectSeq(subs, LAMBDA s : s.id \notin DriversOf(live))

Undestroyed(S) == runtime_agents
Destroyed(S) ==
    [a \in DOMAIN runtime_agents |->
        IF a \in S THEN [runtime_agents[a] EXCEPT !.lifecycle = "destroyed"]
        ELSE runtime_agents[a]]

busRest == <<b_destroyed, b_stack, b_calls, b_runs, b_nemits, b_raised, b_gone>>

\* async with self._lock: the body has no suspension point (RuntimeAgent() is
\* synchronous), so the whole call is one step of the event loop.
RunImage(c, img) ==
    /\ ncalls < MaxCalls
    /\ IF Reusable(img)
       THEN /\ Returned(c, "run_image", img, image_to_agent[img], TRUE)
            /\ UNCHANGED <<agents, image_to_agent, sessions, next_id, runtime_agents,
                           b_subs, b_next_id>>
       ELSE /\ next_id <= MaxAgents
            /\ sessions' = sessions \cup {next_id}
            /\ runtime_agents' = DictSet(runtime_agents, next_id, RuntimeAgent(b_next_id))
            /\ IF b_destroyed
               THEN UNCHANGED <<b_subs, b_next_id>>
               ELSE /\ b_subs' = Connected(b_subs, b_next_id)
                    /\ b_next_id' = b_next_id + 3
            /\ agents' = agents \cup {next_id}
            /\ image_to_agent' = DictSet(image_to_agent, img, next_id)
            /\ next_id' = next_id + 1
            /\ Returned(c, "run_image", img, next_id, FALSE)
    /\ UNCHANGED <<rtVars, busRest, bus_last, legacyVars, ebVars, loopVars, agentVars>>

\* agent.destroy() has no suspension point either
StopImage(c, img) ==
    /\ ncalls < MaxCalls
    /\ IF img \notin DOMAIN image_to_agent
       THEN /\ Returned(c, "stop_image", img, NoAgent, FALSE)
            /\ UNCHANGED <<agents, image_to_agent, runtime_agents, b_subs>>
       ELSE LET found == agents \cap {image_to_agent[img]}
            IN /\ b_subs' = Disposed(b_subs, found)
               /\ runtime_agents' = Destroyed(found)
               /\ agents' = agents \ found
               /\ image_to_agent' = DictDel(image_to_agent, img)
               /\ Returned(c, "stop_image", img, image_to_agent[img], TRUE)
    /\ UNCHANGED <<sessions, next_id, b_next_id, rtVars, busRest, bus_last, legacyVars, ebVars,
                   loopVars, agentVars>>

\* the first image mapped to agent_id, in dict order; the map is searched until the first hit
ImagesOf(a) == {i \in DOMAIN image_to_agent : image_to_agent[i] = a}

DestroyAgent(c, a) ==
    /\ ncalls < MaxCalls
    /\ IF a \notin agents
       THEN /\ Returned(c, "destroy_agent", "img1", a, FALSE)
            /\ UNCHANGED <<agents, image_to_agent, runtime_agents, b_subs>>
       ELSE /\ \/ /\ ImagesOf(a) = {}
                  /\ image_to_agent' = image_to_agent
               \/ \E i \in ImagesOf(a) : image_to_agent' = DictDel(image_to_agent, i)
            /\ b_subs' = Disposed(b_subs, {a})
            /\ runtime_agents' = Destroyed({a})
            /\ agents' = agents \ {a}
            /\ Returned(c, "destroy_agent", "img1", a, TRUE)
    /\ UNCHANGED <<sessions, next_id, b_next_id, rtVars, busRest, bus_last, legacyVars, ebVars,
                   loopVars, agentVars>>

DestroyAllAgents(c) ==
    /\ ncalls < MaxCalls
    /\ b_subs' = Disposed(b_subs, agents)
    /\ runtime_agents' = Destroyed(agents)
    /\ agents' = {}
    /\ image_to_agent' = EmptyDict
    /\ Returned(c, "destroy_all_agents", "img1", NoAgent, TRUE)
    /\ UNCHANGED <<sessions, next_id, b_next_id, rtVars, busRest, bus_last, legacyVars, ebVars,
                   loopVars, agentVars>>

\* RuntimeAgent.destroy called by a holder of an agent run_image returned
AgentDestroy(c, a) ==
    /\ ncalls < MaxCalls
    /\ a \in DOMAIN runtime_agents
    /\ b_subs' = Disposed(b_subs, {a})
    /\ runtime_agents' = Destroyed({a})
    /\ Returned(c, "agent_destroy", "img1", a, TRUE)
    /\ UNCHANGED <<agents, image_to_agent, sessions, next_id, b_next_id, rtVars, busRest, bus_last,
                   legacyVars, ebVars, loopVars, agentVars>>

\* RuntimeAgent.stop called by such a holder: it raises on a destroyed agent
AgentStop(c, a) ==
    /\ ncalls < MaxCalls
    /\ a \in DOMAIN runtime_agents
    /\ IF runtime_agents[a].lifecycle = "destroyed"
       THEN /\ runtime_agents' = runtime_agents
            /\ Returned(c, "agent_stop", "img1", a, FALSE)
       ELSE /\ runtime_agents' = [runtime_agents EXCEPT ![a].lifecycle = "stopped"]
            /\ Returned(c, "agent_stop", "img1", a, TRUE)
    /\ UNCHANGED <<agents, image_to_agent, sessions, next_id, b_subs, b_next_id, rtVars, busRest,
                   bus_last, legacyVars, ebVars, loopVars, agentVars>>

(***************************************************************************)
(* Runtime (runtime_v2/runtime.py): the facade that owns the bus and the   *)
(* containers.  The container modelled above is the one it creates.        *)
(***************************************************************************)
TheContainer == "container_1"

\* Runtime.create_container: raises after shutdown and for an id in use
CreateContainer(c) ==
    /\ ncalls < MaxCalls
    /\ IF rt_shutdown \/ TheContainer \in rt_containers
       THEN /\ Returned(c, "create_container", "img1", NoAgent, FALSE)
            /\ UNCHANGED rt_containers
       ELSE /\ rt_containers' = rt_containers \cup {TheContainer}
            /\ Returned(c, "create_container", "img1", NoAgent, TRUE)
    /\ UNCHANGED <<agents, image_to_agent, sessions, next_id, runtime_agents, rt_shutdown,
                   busVars, bus_last, legacyVars, ebVars, loopVars, agentVars>>

\* Runtime.shutdown: container.dispose for every container held
\* (destroy_all_agents, then the sessions), then bus.destroy; none of them
\* has a suspension point
Shutdown(c) ==
    /\ ncalls < MaxCalls
    /\ BusIdle
    /\ IF rt_shutdown
       THEN UNCHANGED <<agents, image_to_agent, sessions, runtime_agents, rtVars,
                        b_subs, b_destroyed>>
       ELSE /\ rt_shutdown' = TRUE
            /\ IF TheContainer \in rt_containers
               THEN /\ runtime_agents' = Destroyed(agents)
                    /\ agents' = {}
                    /\ image_to_agent' = EmptyDict
                    /\ sessions' = {}
               ELSE UNCHANGED <<agents, image_to_agent, sessions, runtime_agents>>
            /\ rt_containers' = {}
            /\ b_destroyed' = TRUE
            /\ b_subs' = <<>>
    /\ Returned(c, "shutdown", "img1", NoAgent, TRUE)
    /\ UNCHANGED <<next_id, b_next_id, b_stack, b_calls, b_runs, b_nemits, b_raised, b_gone,
                   bus_last, legacyVars, ebVars, loopVars, agentVars>>

(***************************************************************************)
(* Legacy EventBus (runtime/event_bus.py): one bounded asyncio.Queue that  *)
(* publish fills and that the internal consumer loop (_consume_loop) and   *)
(* the consume() iterators of the WebSocket handlers both take from.       *)
(* Every await of the code is a point where the other tasks run.           *)
(***************************************************************************)
EbTypes == {"stream", "state"}
EbSessions == {"s1", "s2"}
NoSession == ""
Publishers == {"p1", "p2"}
Callbacks == {"cb1", "cb2"}

AgentEvent(type, session_id, n) == [type |-> type, session_id |-> session_id, n |-> n]
NoAgentEvent == AgentEvent("", NoSession, 0)

\* the event_types argument of consume: None, or a list
NoTypes == [given |-> FALSE, list |-> {}]
TypeList(list) == [given |-> TRUE, list |-> list]
TypeFilters == {NoTypes, TypeList({}), TypeList({"stream"})}
SessionFilters == {NoSession, "s1"}

Readers == {"r1", "r2"}

InitEventBus ==
    /\ eb_queue = <<>>
    /\ eb_subscribers = [t \in EbTypes |-> <<>>]
    /\ eb_session_subscribers = [s \in EbSessions |-> {}]
    /\ eb_running = FALSE
    /\ eb_loop = [pc |-> "off", event |-> NoAgentEvent, idx |-> 0]
    /\ eb_pub = [p \in Publishers |-> [pc |-> "idle", type |-> "", session_id |-> NoSession]]
    /\ eb_reader = [r \in Readers |->
                       [active |-> FALSE, event_types |-> NoTypes, session_id |-> NoSession]]
    /\ eb_yielded = [r \in Readers |-> <<>>]
    /\ eb_dispatched = <<>>
    /\ eb_nput = 0
    /\ eb_task_done = 0

\* asyncio.Queue.full()
NeverFull(q) == FALSE
Full(q) == Len(q) >= maxsize

\* the item a completed Queue.put appends
Put(type, session_id) == Append(eb_queue, AgentEvent(type, session_id, eb_nput + 1))

Blocked == {p \in Publishers : eb_pub[p].pc = "blocked"}

\* publish: Queue.put returns at once when the queue has room, else waits
Publish(p, type, session_id) ==
    /\ eb_pub[p].pc # "blocked"
    /\ eb_nput + Cardinality(Blocked) < MaxPublish
    /\ IF Full(eb_queue)
       THEN /\ eb_pub' = [eb_pub EXCEPT ![p] = [pc |-> "blocked", type |-> type,
                                                session_id |-> session_id]]
            /\ UNCHANGED <<eb_queue, eb_nput>>
       ELSE /\ eb_queue' = Put(type, session_id)
            /\ eb_nput' = eb_nput + 1
            /\ eb_pub' = [eb_pub EXCEPT ![p] = [pc |-> "idle", type |-> "",
                                                session_id |-> NoSession]]
    /\ UNCHANGED <<eb_subscribers, eb_session_subscribers, eb_running, eb_loop,
                   eb_reader, eb_yielded, eb_dispatched,
                   eb_task_done,
                   busVars, bus_last, legacyVars, containerVars, loopVars, agentVars>>

\* a waiting Queue.put goes on when a get has made room
PutResumes(p) ==
    /\ eb_pub[p].pc = "blocked"
    /\ ~Full(eb_queue)
    /\ eb_queue' = Put(eb_pub[p].type, eb_pub[p].session_id)
    /\ eb_nput' = eb_nput + 1
    /\ eb_pub' = [eb_pub EXCEPT ![p] = [pc |-> "idle", type |-> "", session_id |-> NoSession]]
    /\ UNCHANGED <<eb_subscribers, eb_session_subscribers, eb_running, eb_loop,
                   eb_reader, eb_yielded, eb_dispatched,
                   eb_task_done,
                   busVars, bus_last, legacyVars, containerVars, loopVars, agentVars>>

\* wait_for cancels the waiting put after 5 seconds; publish raises QueueFull
PutTimesOut(p) ==
    /\ eb_pub[p].pc = "blocked"
    /\ eb_pub' = [eb_pub EXCEPT ![p] = [pc |-> "queue_full", type |-> "",
                                        session_id |-> NoSession]]
    /\ UNCHANGED <<eb_queue, eb_nput, eb_subscribers, eb_session_subscribers, eb_running,
                   eb_loop, eb_reader, eb_yielded, eb_dispatched,
                   eb_task_done,
                   busVars, bus_last, legacyVars, containerVars, loopVars, agentVars>>

NumSubscribed ==
    LET RECURSIVE Sum(_)
        Sum(T) == IF T = {} THEN 0
                  ELSE LET t == CHOOSE x \in T : TRUE
                       IN Len(eb_subscribers[t]) + Sum(T \ {t})
    IN Sum(EbTypes)

\* subscribe: the handler goes to the list of its event type; the session
\* only goes to _session_subscribers (the entry's session field records the
\* argument the handler was registered with)
EbSubscribe(event_type, handler, session_id) ==
    /\ NumSubscribed < MaxHandlers
    /\ eb_subscribers' = [eb_subscribers EXCEPT ![event_type] =
                             Append(@, [handler |-> handler, session_id |-> session_id])]
    /\ eb_session_subscribers' =
          IF session_id # NoSession
          THEN [eb_session_subscribers EXCEPT ![session_id] = @ \cup {event_type}]
          ELSE eb_session_subscribers
    /\ UNCHANGED <<eb_queue, eb_nput, eb_running, eb_loop, eb_pub, eb_reader, eb_yielded,
                   eb_dispatched,
                   eb_task_done,
                   busVars, bus_last, legacyVars, containerVars, loopVars, agentVars>>

\* list.remove: the first entry of the handler goes
RECURSIVE RemoveFirst(_, _)
RemoveFirst(l, handler) ==
    IF l = <<>> THEN <<>>
    ELSE IF Head(l).handler = handler THEN Tail(l)
    ELSE <<Head(l)>> \o RemoveFirst(Tail(l), handler)

EbUnsubscribe(event_type, handler) ==
    /\ eb_subscribers' = [eb_subscribers EXCEPT ![event_type] = RemoveFirst(@, handler)]
    /\ eb_subscribers' # eb_subscribers
    /\ UNCHANGED <<eb_queue, eb_nput, eb_session_subscribers, eb_running, eb_loop, eb_pub,
                   eb_reader, eb_yielded, eb_dispatched,
                   eb_task_done,
                   busVars, bus_last, legacyVars, containerVars, loopVars, agentVars>>

EbStart ==
    /\ ~eb_running
    /\ eb_running' = TRUE
    /\ eb_loop' = [pc |-> "waiting", event |-> NoAgentEvent, idx |-> 0]
    /\ UNCHANGED <<eb_queue, eb_nput, eb_subscribers, eb_session_subscribers, eb_pub,
                   eb_reader, eb_yielded, eb_dispatched,
                   eb_task_done,
                   busVars, bus_last, legacyVars, containerVars, loopVars, agentVars>>

\* stop cancels the consumer task wherever it is waiting
EbStop ==
    /\ eb_running
    /\ eb_running' = FALSE
    /\ eb_loop' = [pc |-> "off", event |-> NoAgentEvent, idx |-> 0]
    /\ UNCHANGED <<eb_queue, eb_nput, eb_subscribers, eb_session_subscribers, eb_pub,
                   eb_reader, eb_yielded, eb_dispatched,
                   eb_task_done,
                   busVars, bus_last, legacyVars, containerVars, loopVars, agentVars>>

\* _consume_loop: await self._queue.get()
LoopGets ==
    /\ eb_running
    /\ eb_loop.pc = "waiting"
    /\ eb_queue # <<>>
    /\ eb_loop' = [pc |-> "dispatching", event |-> Head(eb_queue), idx |-> 1]
    /\ eb_queue' = Tail(eb_queue)
    /\ UNCHANGED <<eb_nput, eb_subscribers, eb_session_subscribers, eb_running, eb_pub,
                   eb_reader, eb_yielded, eb_dispatched,
                   eb_task_done,
                   busVars, bus_last, legacyVars, containerVars, loopVars, agentVars>>

\* the handlers of the event's type, the list object itself
HandlersOf(event) == eb_subscribers[event.type]

\* _consume_loop: await handler(event) for the next handler of the list
LoopCalls ==
    /\ eb_loop.pc = "dispatching"
    /\ eb_loop.idx <= Len(HandlersOf(eb_loop.event))
    /\ eb_dispatched' = Append(eb_dispatched,
                               [sub |-> HandlersOf(eb_loop.event)[eb_loop.idx],
                                event |-> eb_loop.event])
    /\ eb_loop' = [eb_loop EXCEPT !.idx = @ + 1]
    /\ UNCHANGED <<eb_queue, eb_nput, eb_subscribers, eb_session_subscribers, eb_running,
                   eb_pub, eb_reader, eb_yielded,
                   eb_task_done,
                   busVars, bus_last, legacyVars, containerVars, loopVars, agentVars>>

\* _consume_loop: the for loop is over, task_done, back to the get
LoopDone ==
    /\ eb_loop.pc = "dispatching"
    /\ eb_loop.idx > Len(HandlersOf(eb_loop.event))
    /\ eb_loop' = [pc |-> "waiting", event |-> NoAgentEvent, idx |-> 0]
    /\ eb_task_done' = eb_task_done + 1
    /\ UNCHANGED <<eb_queue, eb_nput, eb_subscribers, eb_session_subscribers, eb_running,
                   eb_pub, eb_reader, eb_yielded, eb_dispatched,
                   busVars, bus_last, legacyVars, containerVars, loopVars, agentVars>>

\* a WebSocket handler starts iterating consume(event_types, session_id)
Consume(r, event_types, session_id) ==
    /\ ~eb_reader[r].active
    /\ eb_yielded[r] = <<>>
    /\ eb_reader' = [eb_reader EXCEPT ![r] = [active |-> TRUE, event_types |-> event_types,
                                              session_id |-> session_id]]
    /\ UNCHANGED <<eb_queue, eb_nput, eb_subscribers, eb_session_subscribers, eb_running,
                   eb_loop, eb_pub, eb_yielded, eb_dispatched,
                   eb_task_done,
                   busVars, bus_last, legacyVars, containerVars, loopVars, agentVars>>

TypesOnly(r, event) ==
    ~(r.event_types.given /\ r.event_types.list # {} /\ event.type \notin r.event_types.list)
\* the two filters of consume: an event passes unless a filter rejects it
Passes(r, event) ==
    /\ ~(r.event_types.given /\ r.event_types.list # {} /\ event.type \notin r.event_types.list)
    /\ ~(r.session_id # NoSession /\ event.session_id # r.session_id)

\* asyncio.Queue.join returns when _unfinished_tasks, which put raises and
\* task_done lowers, is zero
JoinReturns == eb_nput - eb_task_done = 0

\* consume: await self._queue.get(), then the filters, then yield, and
\* task_done when the consumer asks for the next event; an event a filter
\* rejects is skipped with `continue`, before task_done
ConsumeGets(r) ==
    /\ eb_reader[r].active
    /\ eb_queue # <<>>
    /\ eb_queue' = Tail(eb_queue)
    /\ IF Passes(eb_reader[r], Head(eb_queue))
       THEN /\ eb_yielded' = [eb_yielded EXCEPT ![r] = Append(@, Head(eb_queue))]
            /\ eb_task_done' = eb_task_done + 1
       ELSE UNCHANGED <<eb_yielded, eb_task_done>>
    /\ UNCHANGED <<eb_nput, eb_subscribers, eb_session_subscribers, eb_running, eb_loop,
                   eb_pub, eb_reader, eb_dispatched,
                   busVars, bus_last, legacyVars, containerVars, loopVars, agentVars>>

(***************************************************************************)
(* Specifications                                                          *)
(***************************************************************************)
Init == InitContainer /\ InitLoop /\ InitAgent /\ InitLegacy /\ InitShared /\ InitBus /\ InitEventBus

Next ==
    \/ \E content \in Contents : Receive(content)
    \/ Interrupt
    \/ Stop
    \/ Resume
    \/ Destroy
    \/ \E t \in DOMAIN tasks : TaskStart(t)
    \/ \E t \in DOMAIN tasks : \E msg \in SDKMessages : TaskRecv(t, msg)
    \/ \E t \in DOMAIN tasks : TaskComplete(t)
    \/ \E t \in DOMAIN tasks : TaskError(t)
    \/ \E t \in DOMAIN tasks : TaskCancelled(t)
    \/ FeedStep
    \/ DriverStreamComplete

Spec == Init /\ [][Next]_vars

NextContainer ==
    \/ \E c \in Callers, img \in Images : RunImage(c, img)
    \/ \E c \in Callers, img \in Images : StopImage(c, img)
    \/ \E c \in Callers, a \in 1..MaxAgents : DestroyAgent(c, a)
    \/ \E c \in Callers : DestroyAllAgents(c)

SpecContainer == Init /\ [][NextContainer]_vars

\* the container and callers that keep the agents run_image gave them
NextContainerAgents ==
    \/ \E c \in Callers, img \in Images : RunImage(c, img)
    \/ \E c \in Callers, img \in Images : StopImage(c, img)
    \/ \E c \in Callers, a \in 1..MaxAgents : DestroyAgent(c, a)
    \/ \E c \in Callers : DestroyAllAgents(c)
    \/ \E c \in Callers, a \in 1..MaxAgents : AgentDestroy(c, a)
    \/ \E c \in Callers, a \in 1..MaxAgents : AgentStop(c, a)

SpecContainerAgents == Init /\ [][NextContainerAgents]_vars

\* a runtime, its container with one image, a subscriber of runtime.events
\* and events emitted on the bus
NextRuntime ==
    \/ CreateContainer("c1")
    \/ Shutdown("c1")
    \/ TheContainer \in rt_containers /\ BusIdle /\ RunImage("c1", "img1")
    \/ TheContainer \in rt_containers /\ BusIdle /\ StopImage("c1", "img1")
    \/ \E a \in 1..MaxAgents : BusIdle /\ AgentStop("c1", a)
    \/ OnAny("returns", SubscribeOptions(NoFilter, 0, FALSE))
    \/ Emit("user_message")
    \/ DispatchSkip
    \/ DispatchCall
    \/ DispatchReturn

SpecRuntime == Init /\ [][NextRuntime]_vars

NextLoop ==
    \/ SendMessage
    \/ LoopIteration
    \/ LoopExit

SpecLoop == Init /\ [][NextLoop]_vars
SpecLoopFair == SpecLoop /\ WF_vars(NextLoop)

NextLegacy ==
    \/ \E p \in Handlers : HandlerStart(p)
    \/ \E p \in Handlers, content \in Contents : SendEnter(p, content)
    \/ \E p \in Handlers, text \in LegacyTexts :
          \E names \in {<<>>} \cup SeqsUpTo(ToolNames, MaxToolCalls) :
             GenerateReturns(p, text, names)
    \/ \E p \in Handlers : GenerateRaises(p)
    \/ \E p \in Handlers : ExecuteTools(p)
    \/ \E p \in Handlers : SubmitEnter(p)

SpecLegacy == Init /\ [][NextLegacy]_vars

\* the handlers and close_session on one session; the tool calls of a
\* response are of the one known tool
NextLegacyClose ==
    \/ \E p \in Handlers : HandlerStart(p)
    \/ \E p \in Handlers, content \in Contents : SendEnter(p, content)
    \/ \E p \in Handlers, text \in LegacyTexts :
          \E names \in {<<>>, <<"get_workflow">>} : GenerateReturns(p, text, names)
    \/ \E p \in Handlers : GenerateRaises(p)
    \/ \E p \in Handlers : ExecuteTools(p)
    \/ \E p \in Handlers : SubmitEnter(p)
    \/ CloseSession

SpecLegacyClose == Init /\ [][NextLegacyClose]_vars

\* one agent on a bus that other components emit on; the turns of this
\* specification are the ones in which the SDK yields no content
NextShared ==
    \/ \E content \in Contents : Receive(content)
    \/ Interrupt
    \/ \E t \in DOMAIN tasks : TaskStart(t)
    \/ \E t \in DOMAIN tasks : TaskComplete(t)
    \/ \E t \in DOMAIN tasks : TaskCancelled(t)
    \/ FeedStep
    \/ DriverStreamComplete
    \/ \E e \in ForeignEvents : BusEmit(e)

SpecShared == Init /\ [][NextShared]_vars

NextBus ==
    \/ \E t \in OnTypes, h \in HandlerKinds, f \in Filters, p \in Priorities, o \in BOOLEAN :
          On(t, h, SubscribeOptions(f, p, o))
    \/ \E h \in HandlerKinds, f \in Filters, p \in Priorities, o \in BOOLEAN :
          OnAny(h, SubscribeOptions(f, p, o))
    \/ \E t \in OnTypes, h \in HandlerKinds : Once(t, h)
    \/ \E id \in 0..(MaxSubs - 1) : Unsubscribe(id)
    \/ BusDestroy
    \/ \E t \in EventTypes : Emit(t)
    \/ DispatchSkip
    \/ DispatchCall
    \/ DispatchReturn

SpecBus == Init /\ [][NextBus]_vars

\* subscribers whose handlers unsubscribe while an event is dispatched
NextBusUnsub ==
    \/ \E t \in OnTypes, h \in {"returns", "emits"} \cup UnsubKinds, p \in Priorities :
          On(t, h, SubscribeOptions(NoFilter, p, FALSE))
    \/ \E h \in {"returns", "emits"} \cup UnsubKinds, p \in Priorities :
          OnAny(h, SubscribeOptions(NoFilter, p, FALSE))
    \/ \E t \in EventTypes : Emit(t)
    \/ DispatchSkip
    \/ DispatchCall
    \/ DispatchReturn

SpecBusUnsub == Init /\ [][NextBusUnsub]_vars

\* subscribers whose handlers subscribe or emit while an event is dispatched
NextBusSubscribe ==
    \/ \E t \in OnTypes, h \in {"returns", "emits"} \cup SubscribeKinds, p \in Priorities :
          On(t, h, SubscribeOptions(NoFilter, p, FALSE))
    \/ \E h \in {"returns", "emits"} \cup SubscribeKinds, p \in Priorities :
          OnAny(h, SubscribeOptions(NoFilter, p, FALSE))
    \/ \E t \in EventTypes : Emit(t)
    \/ DispatchSkip
    \/ DispatchCall
    \/ DispatchReturn

SpecBusSubscribe == Init /\ [][NextBusSubscribe]_vars

\* a bus that is destroyed from outside or by a handler
NextBusDestroy ==
    \/ \E t \in OnTypes, h \in {"returns", "unsub_self", DestroyKind, LeaveDestroyKind}, p \in Priorities :
          On(t, h, SubscribeOptions(NoFilter, p, FALSE))
    \/ \E h \in {"returns", "unsub_self", DestroyKind, LeaveDestroyKind}, p \in Priorities :
          OnAny(h, SubscribeOptions(NoFilter, p, FALSE))
    \/ \E t \in OnTypes : Once(t, "returns")
    \/ \E id \in 0..(MaxSubs - 1) : Unsubscribe(id)
    \/ BusDestroy
    \/ \E t \in EventTypes : Emit(t)
    \/ DispatchSkip
    \/ DispatchCall
    \/ DispatchReturn

SpecBusDestroy == Init /\ [][NextBusDestroy]_vars

\* publishers and consume() iterators on a bus whose consumer loop may run
NextEbConsume ==
    \/ \E p \in Publishers, t \in EbTypes, sid \in EbSessions : Publish(p, t, sid)
    \/ \E p \in Publishers : PutResumes(p)
    \/ \E p \in Publishers : PutTimesOut(p)
    \/ EbStart
    \/ LoopGets
    \/ LoopDone
    \/ \E T \in TypeFilters, sid \in SessionFilters : Consume("r1", T, sid)
    \/ ConsumeGets("r1")

SpecEbConsume == Init /\ [][NextEbConsume]_vars

\* a publisher, subscribers by type, the consumer loop, and a consume()
\* iterator as the WebSocket handlers start one
NextEbDispatch ==
    \/ \E t \in EbTypes : Publish("p1", t, "s1")
    \/ PutResumes("p1")
    \/ PutTimesOut("p1")
    \/ \E t \in EbTypes, h \in Callbacks : EbSubscribe(t, h, NoSession)
    \/ \E t \in EbTypes, h \in Callbacks : EbUnsubscribe(t, h)
    \/ EbStart
    \/ EbStop
    \/ LoopGets
    \/ LoopCalls
    \/ LoopDone
    \/ Consume("r1", NoTypes, NoSession)
    \/ ConsumeGets("r1")

SpecEbDispatch == Init /\ [][NextEbDispatch]_vars

\* a publisher for two sessions, subscribers by type and session, and the
\* consumer loop
NextEbSessions ==
    \/ \E sid \in EbSessions : Publish("p1", "stream", sid)
    \/ PutResumes("p1")
    \/ PutTimesOut("p1")
    \/ \E t \in EbTypes, h \in Callbacks, sid \in SessionFilters : EbSubscribe(t, h, sid)
    \/ EbStart
    \/ LoopGets
    \/ LoopCalls
    \/ LoopDone

SpecEbSessions == Init /\ [][NextEbSessions]_vars

\* a publisher for two sessions and two consume() iterators, one per session,
\* with or without the consumer loop
NextEbReaders ==
    \/ \E sid \in EbSessions : Publish("p1", "stream", sid)
    \/ PutResumes("p1")
    \/ PutTimesOut("p1")
    \/ EbStart
    \/ LoopGets
    \/ LoopDone
    \/ \E sid \in EbSessions : Consume("r1", NoTypes, sid)
    \/ \E sid \in EbSessions : Consume("r2", NoTypes, sid)
    \/ \E r \in Readers : ConsumeGets(r)

SpecEbReaders == Init /\ [][NextEbReaders]_vars

(***************************************************************************)
(* Helpers of the properties                                               *)
(***************************************************************************)
\* the positions of the events delivered in the current step
NewRange == (Len(observed) + 1)..Len(observed')

IsEnv(e, type) == e.source = "environment" /\ e.type = type

\* number of positions up to k whose event satisfies the test
CountUpTo(k, Test(_)) == Cardinality({j \in 1..k : Test(observed[j])})

MaxOf(S) == CHOOSE x \in S : \A y \in S : y <= x

(***************************************************************************)
(* C1: at most one live agent per image. Every registered agent is the     *)
(* agent of exactly one image, and a run_image call on an image that has   *)
(* a registered agent returns that agent with reused = True and creates    *)
(* nothing, while a call on an image without one creates exactly one; the  *)
(* calls are atomic steps, so this holds for every interleaving of callers.*)
(***************************************************************************)
C1_NoSecondAgent == \A a \in agents : Cardinality(ImagesOf(a)) = 1

C1_RunImageStep ==
    (ncalls' = ncalls + 1 /\ last_call'.op = "run_image") =>
        LET img == last_call'.image
        IN IF img \in DOMAIN image_to_agent /\ image_to_agent[img] \in agents
           THEN /\ last_call'.flag = TRUE
                /\ last_call'.agent = image_to_agent[img]
                /\ agents' = agents
                /\ image_to_agent' = image_to_agent
           ELSE /\ last_call'.flag = FALSE
                /\ last_call'.agent \notin agents
                /\ agents' = agents \cup {last_call'.agent}
                /\ image_to_agent'[img] = last_call'.agent

C1_OneAgentPerImage == [](C1_NoSecondAgent) /\ [][C1_RunImageStep]_vars

\* a second run_image by the other caller has returned the registered agent
C1_Witness ==
    /\ last_call.op = "run_image"
    /\ last_call.flag = TRUE
    /\ last_call.caller = "c2"
    /\ last_call.agent \in agents
    /\ ncalls >= 3

(***************************************************************************)
(* C2: the tool loop of the handlers never runs more than max_iterations   *)
(* passes, and the handler always comes to its end, whatever the backend   *)
(* answers (also when it answers every submission with more tool calls).   *)
(***************************************************************************)
C2_BoundedLoop ==
    /\ [](iteration <= max_iterations)
    /\ <>(loop_pc \in {"done", "failed"})

\* the cap was reached with the backend still asking for tools
C2_Witness == loop_pc = "done" /\ iteration = max_iterations /\ tool_calls > 0

(***************************************************************************)
(* C3: the processing state follows the transition table. receive() on a   *)
(* running agent sets thinking; while the Driver is subscribed,            *)
(* message_start sets responding, tool_use_content_block_start sets        *)
(* calling_tool, message_stop sets done and the completion that follows    *)
(* sets idle, error_received sets error, and interrupted is followed by    *)
(* the completion that sets idle.                                          *)
(***************************************************************************)
C3_Step ==
    /\ (Len(tasks') = Len(tasks) + 1) => state' = "thinking"
    /\ driver_subscribed =>
         \A k \in NewRange :
            observed'[k].source = "environment" =>
               /\ observed'[k].type = "message_start" => state' = "responding"
               /\ observed'[k].type = "tool_use_content_block_start" => state' = "calling_tool"
               /\ observed'[k].type = "message_stop" =>
                     state' = "done" /\ complete_pending' = "message_stop"
               /\ observed'[k].type = "error_received" => state' = "error"
               /\ observed'[k].type = "interrupted" =>
                     state' = state /\ complete_pending' = "interrupted"
    /\ complete_pending # "none" => state' = "idle" /\ complete_pending' = "none"

C3_TransitionTable == [][C3_Step]_vars

\* a turn with a tool-use block has gone through message_stop and is idle again
C3_Witness ==
    /\ state = "idle"
    /\ complete_pending = "none"
    /\ \E k \in DOMAIN observed : IsEnv(observed[k], "tool_use_content_block_start")
    /\ \E k \in DOMAIN observed : IsEnv(observed[k], "message_stop")

(***************************************************************************)
(* C4: every change of the processing state emits a state_change event,    *)
(* so the last state_change delivered on the bus carries the current       *)
(* processing state (and the state is idle while none was delivered).      *)
(***************************************************************************)
StateChangePositions == {k \in DOMAIN observed : observed[k].type = "state_change"}

C4_LastStateChangeIsState ==
    IF StateChangePositions = {}
    THEN state = "idle"
    ELSE observed[MaxOf(StateChangePositions)].state = state

(***************************************************************************)
(* The scenario of C5 and C6: one receive, answered by message_start, one  *)
(* text block "4" and message_stop with stop reason end_turn; the turn is  *)
(* complete.                                                               *)
(***************************************************************************)
IsEnvEvent(e) == e.source = "environment"

ScenarioStream ==
    <<Ev("message_start", "environment", FALSE, 1),
      [Ev("text_content_block_start", "environment", FALSE, 1) EXCEPT !.index = 0],
      [Ev("text_delta", "environment", FALSE, 1) EXCEPT !.text = "4"],
      [Ev("text_content_block_stop", "environment", FALSE, 1) EXCEPT !.index = 0],
      [Ev("message_stop", "environment", FALSE, 1) EXCEPT !.stop_reason = "end_turn"]>>

ScenarioDone ==
    /\ Quiet
    /\ Len(tasks) = 1
    /\ tasks[1].status = "done"
    /\ NumInterrupts = 0
    /\ SelectSeq(observed, IsEnvEvent) = ScenarioStream

(***************************************************************************)
(* C5: in the scenario, the broadcastable state_change and text_delta      *)
(* events a subscriber observes are state(thinking), state(responding),    *)
(* text_delta("4"), state(done), state(idle), in this order.               *)
(***************************************************************************)
IsStateOrTextBroadcast(e) ==
    e.broadcastable /\ e.type \in {"state_change", "text_delta"}

C5_ScenarioSequence ==
    ScenarioDone =>
        SelectSeq(observed, IsStateOrTextBroadcast) =
            <<StateChange("thinking"),
              StateChange("responding"),
              [Ev("text_delta", "agent", TRUE, NoRequest) EXCEPT !.text = "4"],
              StateChange("done"),
              StateChange("idle")>>

(***************************************************************************)
(* C6: in the scenario, the session's messages are the user message and    *)
(* exactly one assistant message with content "4".                         *)
(***************************************************************************)
C6_SessionGrows ==
    ScenarioDone =>
        \E c \in Contents :
            messages = <<[role |-> "user", content |-> c],
                         [role |-> "assistant", content |-> "4"]>>

(***************************************************************************)
(* C7: the state_change to thinking of a receive is delivered immediately  *)
(* before its user_message, and every text_delta of a turn is delivered    *)
(* after the user_message of that turn, hence after the state_change.      *)
(***************************************************************************)
C7_ThinkingFirst ==
    \A k \in DOMAIN observed :
        /\ observed[k].type = "user_message" =>
              k > 1 /\ observed[k - 1] = StateChange("thinking")
        /\ IsEnv(observed[k], "text_delta") =>
              \E j \in 1..(k - 1) :
                  /\ observed[j].type = "user_message"
                  /\ observed[j].request_id = observed[k].request_id
        /\ observed[k].type = "text_delta" =>
              \E j \in 1..(k - 1) : observed[j] = StateChange("thinking")

C7_Witness == \E k \in DOMAIN observed : IsEnv(observed[k], "text_delta")

(***************************************************************************)
(* C8: start/stop parity. Within one loop run (one request id), at every   *)
(* point of the event stream the text block stops for a block index do not *)
(* outnumber the text block starts for it, and the tool-use block stops    *)
(* for a tool call do not outnumber its starts: every stop closes a block  *)
(* that was started.                                                       *)
(***************************************************************************)
C8_StartStopParity ==
    \A k \in DOMAIN observed :
        LET e == observed[k]
            SameTextStart(x) == IsEnv(x, "text_content_block_start")
                                /\ x.request_id = e.request_id /\ x.index = e.index
            SameTextStop(x) == IsEnv(x, "text_content_block_stop")
                               /\ x.request_id = e.request_id /\ x.index = e.index
            SameToolStart(x) == IsEnv(x, "tool_use_content_block_start")
                                /\ x.request_id = e.request_id /\ x.tool = e.tool
            SameToolStop(x) == IsEnv(x, "tool_use_content_block_stop")
                               /\ x.request_id = e.request_id /\ x.tool = e.tool
        IN /\ IsEnv(e, "text_content_block_stop") =>
                 CountUpTo(k, SameTextStop) <= CountUpTo(k, SameTextStart)
           /\ IsEnv(e, "tool_use_content_block_stop") =>
                 CountUpTo(k, SameToolStop) <= CountUpTo(k, SameToolStart)

(***************************************************************************)
(* C9: interrupt() with a task in flight requests its cancellation and     *)
(* emits exactly one interrupted event, after which the completion sets    *)
(* the processing state to idle; a task whose cancellation was requested   *)
(* ends cancelled (the cancellation is re-raised), never returns normally, *)
(* and no message_stop or error_received carries its request id, so the    *)
(* state done is never entered for that turn.                              *)
(***************************************************************************)
C9_CancelledTurn ==
    \A t \in DOMAIN tasks :
        tasks[t].cancel_requested =>
            /\ tasks[t].status \in {"pending", "awaiting", "cancelled"}
            /\ \A k \in DOMAIN observed :
                  observed[k].request_id = t =>
                      ~IsEnv(observed[k], "message_stop") /\ ~IsEnv(observed[k], "error_received")

C9_InterruptStep ==
    /\ ( /\ \E k \in NewRange : observed'[k].type = "interrupt"
         /\ InFlight
         /\ ~tasks[current_task].cancel_requested )
       => /\ tasks'[current_task].cancel_requested
          /\ Cardinality({k \in NewRange : IsEnv(observed'[k], "interrupted")}) = 1
          /\ \A k \in NewRange : ~IsEnv(observed'[k], "message_stop")
                                 /\ ~IsEnv(observed'[k], "error_received")
          /\ state' # "done"
          /\ driver_subscribed => complete_pending' = "interrupted"
    /\ complete_pending = "interrupted" => state' = "idle"
    /\ \A t \in DOMAIN tasks :
          (tasks[t].cancel_requested /\ tasks'[t].status # tasks[t].status)
              => tasks'[t].status = "cancelled"

C9_InterruptInFlight == [](C9_CancelledTurn) /\ [][C9_InterruptStep]_vars

\* a task interrupted in mid-stream has been cancelled and the agent is idle
C9_Witness ==
    /\ \E t \in DOMAIN tasks :
          /\ tasks[t].status = "cancelled"
          /\ \E k \in DOMAIN observed :
                IsEnv(observed[k], "message_start") /\ observed[k].request_id = t
          /\ \E k \in DOMAIN observed :
                IsEnv(observed[k], "interrupted") /\ observed[k].request_id = t
    /\ state = "idle"
    /\ complete_pending = "none"

(***************************************************************************)
(* C10: interrupt() when there is no in-flight task (none was ever         *)
(* started, the current one has finished, or it was already cancelled by   *)
(* an earlier interrupt) emits no interrupted event and leaves the         *)
(* processing state, the lifecycle and the session unchanged.              *)
(***************************************************************************)
AlreadyInterrupted ==
    \E k \in DOMAIN observed :
        IsEnv(observed[k], "interrupted") /\ observed[k].request_id = current_task

C10_Step ==
    ( /\ \E k \in NewRange : observed'[k].type = "interrupt"
      /\ (current_task = 0 \/ TaskDone(current_task) \/ AlreadyInterrupted) )
    => /\ \A k \in NewRange : ~IsEnv(observed'[k], "interrupted")
       /\ state' = state
       /\ complete_pending' = "none"
       /\ lifecycle' = lifecycle
       /\ messages' = messages
       /\ last_error' = "none"

C10_DoubleInterruptNoOp == [][C10_Step]_vars

(***************************************************************************)
(* C11: a backend failure that is not a cancellation ends the turn with    *)
(* one error_received event that carries the agent's context; the task     *)
(* ends without an exception and emits nothing more, and the processing    *)
(* state of a live agent is error with no completion pending (it goes      *)
(* neither to done nor to idle).                                           *)
(***************************************************************************)
ErrorReceivedOf(t) ==
    [Ev("error_received", "environment", FALSE, t) EXCEPT
        !.text = "sdk_error", !.context = SelfId]

\* the task t leaves its loop in this step without having been cancelled
FailsInStep(t) ==
    /\ tasks[t].status \in {"pending", "awaiting"}
    /\ ~tasks[t].cancel_requested
    /\ tasks'[t].status \notin {"pending", "awaiting", "running"}

C11_Step ==
    \A t \in DOMAIN tasks :
        FailsInStep(t) =>
            /\ tasks'[t].status = "done"
            /\ IF driver_subscribed
               THEN /\ observed' = observed \o <<StateChange("error"),
                                                  Presented(ErrorReceivedOf(t)),
                                                  ErrorReceivedOf(t)>>
                    /\ state' = "error"
                    /\ complete_pending' = "none"
               ELSE /\ observed' = Append(observed, ErrorReceivedOf(t))
                    /\ state' = state

C11_ErrorEndsTurn ==
    /\ \A k \in DOMAIN observed :
          IsEnv(observed[k], "error_received") =>
             /\ tasks[observed[k].request_id].status = "done"
             /\ \A j \in (k + 1)..Len(observed) :
                   ~(observed[j].source = "environment"
                     /\ observed[j].request_id = observed[k].request_id)
    /\ (/\ Len(observed) >= 3
        /\ IsEnv(observed[Len(observed)], "error_received")
        /\ observed[Len(observed) - 2] = StateChange("error"))
          => state = "error" /\ complete_pending = "none"

C11_ErrorReceived == [](C11_ErrorEndsTurn) /\ [][C11_Step]_vars

\* the backend failed after a text delta had been streamed
C11_Witness ==
    /\ state = "error"
    /\ Len(observed) >= 3
    /\ observed[Len(observed)] = ErrorReceivedOf(1)
    /\ tasks[1].status = "done"
    /\ \E k \in DOMAIN observed : IsEnv(observed[k], "text_delta")

(***************************************************************************)
(* C12: when the backend asks for a tool the executor does not have, the   *)
(* tool result fed back to the backend for that call is flagged            *)
(* is_error = true, the other tool calls of the turn are executed, and     *)
(* the handler does not fail: whenever generate is called with submitted   *)
(* results, the last converted message holds, for every unknown tool of    *)
(* the turn, a tool_result block for its id with is_error true, and every  *)
(* known tool of the turn has its result.                                  *)
(***************************************************************************)
IsErrorFlagged(b) == "is_error" \in DOMAIN b /\ b.is_error = TRUE

FedBackFor(id) ==
    {j \in DOMAIN l_fed[Len(l_fed)].content :
        /\ l_fed[Len(l_fed)].content[j].type = "tool_result"
        /\ l_fed[Len(l_fed)].content[j].tool_use_id = id}

C12_UnknownToolFlagged ==
    \A p \in Handlers :
        hs[p].pc = "gen_submit" =>
            LET tcs == l_messages[LastAssistantWithTools(l_messages)].tool_calls
            IN \A i \in DOMAIN tcs :
                  IF tcs[i].name \in KnownTools
                  THEN tcs[i].result = DictOf("workflow")
                  ELSE \E j \in FedBackFor(tcs[i].id) :
                          IsErrorFlagged(l_fed[Len(l_fed)].content[j])

(***************************************************************************)
(* C13: round trip of a pending tool call. When submit_tool_results        *)
(* accepts results, every call of the last assistant message with tool     *)
(* calls that was pending (result None) and has a submitted result         *)
(* appears in the appended tool-result message with that result, error     *)
(* None and its id, name and arguments, and the call of the assistant      *)
(* message has the result with id, name and arguments unchanged.           *)
(***************************************************************************)
SubmitAccepted(p) == hs[p].pc = "wait_submit" /\ hs'[p].pc = "gen_submit"

C13_Step ==
    \A p \in Handlers :
        SubmitAccepted(p) =>
            LET k == LastAssistantWithTools(l_messages)
                tcs == l_messages[k].tool_calls
                added == l_messages'[Len(l_messages')]
            IN /\ Len(l_messages') = Len(l_messages) + 1
               /\ added.role = "user"
               /\ \A i \in DOMAIN tcs :
                     (tcs[i].result = None /\ InResultMap(hs[p].tool_results, tcs[i].id)) =>
                        /\ \E j \in DOMAIN added.tool_calls :
                              added.tool_calls[j] =
                                 [id |-> tcs[i].id, name |-> tcs[i].name,
                                  arguments |-> tcs[i].arguments,
                                  result |-> ResultMap(hs[p].tool_results, tcs[i].id),
                                  error |-> NoError]
                        /\ ResultMap(hs[p].tool_results, tcs[i].id) # None
                        /\ l_messages'[k].tool_calls[i] =
                              [tcs[i] EXCEPT !.result = ResultMap(hs[p].tool_results, tcs[i].id)]

C13_RoundTrip == [][C13_Step]_vars

\* results were accepted for a turn with a call that was still pending
C13_Witness ==
    \E p \in Handlers :
        /\ hs[p].pc = "gen_submit"
        /\ l_messages[Len(l_messages)].role = "user"
        /\ \E j \in DOMAIN l_messages[Len(l_messages)].tool_calls :
              /\ l_messages[Len(l_messages)].tool_calls[j].result = ErrorDict("Unknown tool")
              /\ l_messages[Len(l_messages)].tool_calls[j].error = NoError

(***************************************************************************)
(* C14: receive on an agent that is stopped or destroyed raises the        *)
(* invalid-state error to its caller and changes nothing: no turn is       *)
(* started while the lifecycle is not running, and the step in which the   *)
(* error is raised leaves the processing state, the session's messages     *)
(* and the bus untouched.                                                  *)
(***************************************************************************)
ReceiveRejected ==
    /\ last_error' # last_error
    /\ last_error' \in {CannotSend("stopped"), CannotSend("destroyed")}

C14_Step ==
    /\ lifecycle # "running" =>
          /\ Len(tasks') = Len(tasks)
          /\ messages' = messages
          /\ \A k \in NewRange : observed'[k].type # "user_message"
    /\ ReceiveRejected =>
          /\ lifecycle # "running"
          /\ last_error' = CannotSend(lifecycle)
          /\ state' = state
          /\ messages' = messages
          /\ observed' = observed
          /\ tasks' = tasks
          /\ lifecycle' = lifecycle

C14_ReceiveNotRunning == [][C14_Step]_vars

\* receive was rejected on a stopped agent that has a turn behind it
C14_Witness ==
    /\ lifecycle = "stopped"
    /\ last_error = CannotSend("stopped")
    /\ Len(messages) = 1

(***************************************************************************)
(* C15: destroyed is terminal. Once the lifecycle is destroyed it stays    *)
(* destroyed, and every operation on the agent fails: in particular no     *)
(* interrupt is emitted for a destroyed agent and no turn is started.      *)
(***************************************************************************)
C15_Step ==
    lifecycle = "destroyed" =>
        /\ lifecycle' = "destroyed"
        /\ Len(tasks') = Len(tasks)
        /\ \A k \in NewRange : observed'[k].type # "interrupt"

C15_DestroyedTerminal == [][C15_Step]_vars

(***************************************************************************)
(* C16: isolation in the Driver. When another component emits an event on  *)
(* the shared bus, the agent's processing state and the Presenter's        *)
(* output change only if an event with source environment, a driveable     *)
(* type and this agent's id was delivered in that dispatch; an event       *)
(* without context or with another agent's id changes neither.             *)
(***************************************************************************)
ForThisAgent(e) ==
    /\ e.source = "environment"
    /\ e.type \in DRIVEABLE_TYPES
    /\ e.context = SelfId

\* an event the agent itself puts on the bus: a state change or a presented event
FromAgent(e) == e.source = "agent" /\ e.broadcastable

C16_Step ==
    /\ (bus_last' # bus_last /\ \A k \in NewRange : ~ForThisAgent(observed'[k])) =>
          /\ state' = state
          /\ complete_pending' = complete_pending
          /\ messages' = messages
          /\ \A k \in NewRange : ~FromAgent(observed'[k])
    \* the stream events of a turn that was started without this agent's id
    /\ (feeding # <<>> /\ Head(feeding).context # SelfId) =>
          /\ state' = state
          /\ complete_pending' = complete_pending
          /\ messages' = messages
          /\ observed' = observed

C17_Step ==
    (bus_last' # bus_last /\ bus_last'.context # SelfId) =>
        /\ tasks' = tasks
        /\ current_task' = current_task

C17_EffectorFiltered == [][C17_Step]_vars
(***************************************************************************)
(* SystemBus                                                               *)
(***************************************************************************)
\* the ids of the subscriptions called for the event numbered seq, in call order
CallsOf(calls, seq) ==
    LET mine == SelectSeq(calls, LAMBDA c : c.seq = seq)
    IN [i \in DOMAIN mine |-> mine[i].sub]

\* r is to be called before s
Before(r, s) ==
    r.priority > s.priority \/ (r.priority = s.priority /\ r.id < s.id)

\* the ids of the subscriptions of S matching event_type: higher priority
\* first, creation order among equal priorities
ExpectedOrder(S, event_type) ==
    LET M == {s \in S : Matches(s, event_type)}
        Rank(s) == 1 + Cardinality({r \in M : Before(r, s)})
    IN [i \in 1..Cardinality(M) |-> (CHOOSE s \in M : Rank(s) = i).id]

\* the innermost _dispatch returns in this step after it left its for loop
Completes ==
    /\ ~BusIdle
    /\ TopFrame.idx > Len(FrameList(TopFrame))
    /\ Len(b_stack') = Len(b_stack) - 1

\* C18 -- when an emit returns, the handlers it called for its event are
\* those of the subscriptions that matched when it began, higher priority
\* first and in creation order among equal priorities, whatever on, on_any
\* and unsubscribe calls came before it.
C18_Step ==
    Completes =>
        CallsOf(b_calls, TopFrame.seq) = ExpectedOrder(TopFrame.at_emit, TopFrame.type)

C18_PriorityOrder == [][C18_Step]_vars

\* C18 -- witness: an emit from outside has returned after calling two
\* handlers, the one subscribed later (with the higher priority) first.
C18_Witness ==
    /\ BusIdle
    /\ b_nemits > 0
    /\ Len(b_calls) = 2
    /\ b_calls[1].seq = 1 /\ b_calls[2].seq = 1
    /\ b_calls[1].sub > b_calls[2].sub

\* C19 -- no emit raises to its caller, and when an emit for which a
\* subscription with a raising handler matched returns, the handler of every
\* subscription that matched has been called for the event.
C19_Step ==
    /\ ~b_raised'
    /\ (Completes /\ (\E s \in TopFrame.at_emit :
                         Matches(s, TopFrame.type) /\ s.handler = "raises"))
         => \A s \in TopFrame.at_emit :
               Matches(s, TopFrame.type) =>
                  \E i \in DOMAIN b_calls :
                     b_calls[i].sub = s.id /\ b_calls[i].seq = TopFrame.seq

C19_HandlerIsolation == [][C19_Step]_vars

\* C19 -- witness: an emit from outside has returned normally after the
\* first handler it called raised and a second handler was called after it.
C19_Witness ==
    /\ BusIdle
    /\ b_nemits > 0
    /\ ~b_raised
    /\ Len(b_calls) = 2
    /\ b_calls[1].seq = 1 /\ b_calls[2].seq = 1
    /\ \E i \in DOMAIN b_subs :
          b_subs[i].id = b_calls[1].sub /\ b_subs[i].handler = "raises"

\* C20 -- the handler of a subscription created with once is never called a
\* second time, whether the event comes from outside or from a handler.
C20_Step ==
    \A id \in DOMAIN b_runs :
       (b_runs'[id] > b_runs[id] /\ AtSub.once) => b_runs[id] = 0

C20_OnceRunsOnce == [][C20_Step]_vars

\* how many times id occurs in the sequence of ids q
TimesIn(q, id) == Cardinality({i \in DOMAIN q : q[i] = id})

\* the handler of a subscription is called in this step
Calls == Len(b_calls') > Len(b_calls)

\* C21 -- a handler that unsubscribes during a dispatch does not corrupt
\* it: when the dispatch of an event returns, every subscription that
\* matched when it began and that no handler has unsubscribed has been
\* called exactly once for the event, and a subscription a handler has
\* unsubscribed is called for no event emitted after that.
C21_Step ==
    /\ Calls => AtSub.id \notin TopFrame.gone
    /\ Completes =>
          \A s \in TopFrame.at_emit :
             (Matches(s, TopFrame.type) /\ s.id \notin b_gone) =>
                TimesIn(CallsOf(b_calls, TopFrame.seq), s.id) = 1

C21_UnsubscribeInDispatch == [][C21_Step]_vars

\* C21 -- witness: a handler has unsubscribed a subscription whose handler
\* had been called, and a second emit from outside has returned after
\* calling a remaining handler and not the unsubscribed one.
C21_Witness ==
    /\ BusIdle
    /\ b_nemits = 2
    /\ \E g \in b_gone : b_runs[g] >= 1
    /\ b_calls # <<>>
    /\ \A i \in DOMAIN b_calls : b_calls[i].sub \notin b_gone

\* C22 -- when handlers subscribe or emit during the dispatch of an event,
\* no subscription that existed when the dispatch began is called a second
\* time for the event, and when the dispatch returns every such subscription
\* that matched has been called for it.
C22_Step ==
    /\ (Calls /\ AtSub \in TopFrame.at_emit) =>
          TimesIn(CallsOf(b_calls, TopFrame.seq), AtSub.id) = 0
    /\ Completes =>
          \A s \in TopFrame.at_emit :
             Matches(s, TopFrame.type) =>
                TimesIn(CallsOf(b_calls, TopFrame.seq), s.id) = 1

C22_ReentrantDispatch == [][C22_Step]_vars

\* C23 -- destroy leaves no subscription, and once the bus is destroyed it
\* stays destroyed, nothing is registered and no handler is called, whether
\* destroy was called from outside or by a handler during a dispatch.
C23_Step ==
    /\ b_destroyed' => b_subs' = <<>>
    /\ b_destroyed => (b_destroyed' /\ b_next_id' = b_next_id /\ ~Calls)

C23_DestroyedBusIsSilent == [][C23_Step]_vars

(***************************************************************************)
(* Legacy EventBus                                                         *)
(***************************************************************************)
\* C24 -- the queue never holds more than maxsize events: an event is only
\* put when there was room, a publish on a full queue waits and leaves the
\* queue as it is, and a publish whose wait times out raises QueueFull
\* without its event being put, the queued events unchanged.
C24_Step ==
    /\ Len(eb_queue') <= maxsize
    /\ eb_nput' # eb_nput => Len(eb_queue) < maxsize
    /\ \A p \in Publishers :
          /\ (eb_pub[p].pc # "blocked" /\ eb_pub'[p].pc = "blocked") =>
                (Len(eb_queue) = maxsize /\ eb_queue' = eb_queue)
          /\ (eb_pub[p].pc = "blocked" /\ Len(eb_queue) = maxsize) =>
                (eb_pub'[p].pc \in {"blocked", "queue_full"} /\ eb_nput' = eb_nput)
          /\ eb_pub'[p].pc = "queue_full" /\ eb_pub[p].pc # "queue_full" =>
                (eb_pub[p].pc = "blocked" /\ eb_queue' = eb_queue /\ eb_nput' = eb_nput)

C24_Backpressure == [][C24_Step]_vars

\* C24 -- witness: the queue is full of the first maxsize events, nothing
\* was taken from it, and a publish has raised QueueFull.
C24_Witness ==
    /\ Len(eb_queue) = maxsize
    /\ eb_nput = maxsize
    /\ \E p \in Publishers : eb_pub[p].pc = "queue_full"

\* the handlers called for the event numbered n, in call order
DispatchedFor(n) ==
    LET mine == SelectSeq(eb_dispatched, LAMBDA d : d.event.n = n)
    IN [i \in DOMAIN mine |-> mine[i].sub.handler]

\* the handlers subscribed to event_type, in list order
SubscribedTo(event_type) ==
    [i \in DOMAIN eb_subscribers[event_type] |-> eb_subscribers[event_type][i].handler]

\* C25 -- while the bus is started every event that leaves the queue and
\* whose type has a subscribed handler goes to the dispatch of the consumer
\* loop, in queue order; when the dispatch
\* of an event ends, every handler then subscribed to its type has been
\* called for it as many times as it is subscribed; events are dispatched
\* in the order they were published.
C25_Step ==
    /\ (/\ eb_running
        /\ eb_queue # <<>>
        /\ eb_queue' = Tail(eb_queue)
        /\ eb_subscribers[Head(eb_queue).type] # <<>>) =>
          (eb_loop'.pc = "dispatching" /\ eb_loop'.event = Head(eb_queue))
    /\ (eb_loop.pc = "dispatching" /\ eb_loop'.pc = "waiting") =>
          \A h \in Callbacks :
             TimesIn(DispatchedFor(eb_loop.event.n), h)
                = TimesIn(SubscribedTo(eb_loop.event.type), h)
    /\ \A i, j \in DOMAIN eb_dispatched' :
          i < j => eb_dispatched'[i].event.n <= eb_dispatched'[j].event.n

C25_DispatchExactlyOnce == [][C25_Step]_vars

C27_SessionSubscription ==
    \A i \in DOMAIN eb_dispatched :
       eb_dispatched[i].sub.session_id # NoSession =>
          eb_dispatched[i].event.session_id = eb_dispatched[i].sub.session_id

\* ---- legacy Container: locks and state errors ----

\* the handler is suspended in `await self.agent_engine.generate`
AwaitingBackend(p) == hs[p].pc \in {"gen_send", "gen_submit"}

\* C28: no handler holds the session lock while it is suspended awaiting the
\* backend, so another call on the session is never blocked by a backend call
C28_NoLockAcrossAwait ==
    \A p \in Handlers : AwaitingBackend(p) => l_lock.holder # p

\* C29: a step of a handler that changes the session's state, its message list
\* or the tool-call results in its messages is taken while that handler holds
\* the session's lock
C29_Step ==
    \A p \in Handlers :
        (hs'[p] # hs[p] /\ (l_state' # l_state \/ l_messages' # l_messages)) =>
            l_lock.holder = p

C29_MutatedUnderLock == [][C29_Step]_vars

\* the call of handler p is rejected in this step
SendRejected(p) ==
    /\ hs[p].pc = "wait_send" /\ hs'[p].pc # "wait_send"
    /\ l_state \in {"closed", "processing"}
SubmitRejected(p) ==
    /\ hs[p].pc = "wait_submit" /\ hs'[p].pc # "wait_submit"
    /\ l_state # "waiting_for_tool"

\* C30: send_message on a closed or processing session and submit_tool_results
\* on a session that is not waiting_for_tool fail with the ValueError answer
\* and leave the session's state and message list as they were
C30_Step ==
    \A p \in Handlers :
        (SendRejected(p) \/ SubmitRejected(p)) =>
            /\ hs'[p].pc = "failed"
            /\ hs'[p].status = 404
            /\ l_state' = l_state
            /\ l_messages' = l_messages

C30_StateErrorsRaised == [][C30_Step]_vars

\* a send_message was refused on a session that was still processing, after
\* the backend had failed inside submit_tool_results
C30_Witness ==
    /\ l_state = "processing"
    /\ \E p \in Handlers : hs[p].pc = "failed" /\ hs[p].status = 404
    /\ \E q \in Handlers : hs[q].pc = "failed" /\ hs[q].status = 500

C30_WitnessClosed ==
    /\ l_state = "closed"
    /\ \E p \in Handlers : hs[p].pc = "failed" /\ hs[p].status = 404 /\ hs[p].iteration = 0

C30_WitnessSubmit ==
    /\ l_state # "waiting_for_tool"
    /\ \E p \in Handlers : hs[p].pc = "failed" /\ hs[p].status = 404 /\ hs[p].iteration > 0

\* ---- RuntimeContainer: the maps after teardown ----

MappedAgents == {image_to_agent[i] : i \in DOMAIN image_to_agent}

Injective(d) == \A i, j \in DOMAIN d : d[i] = d[j] => i = j

\* the container call that completes in this step
Completed(op) == ncalls' = ncalls + 1 /\ last_call'.op = op

\* the agent was removed with its mapping, and nothing else changed
RemovedOnly(a) ==
    /\ agents' = agents \ {a}
    /\ DOMAIN image_to_agent' = {i \in DOMAIN image_to_agent : image_to_agent[i] # a}
    /\ \A i \in DOMAIN image_to_agent' : image_to_agent'[i] = image_to_agent[i]

C31_Step ==
    /\ Completed("stop_image") =>
          LET img == last_call'.image
              found == img \in DOMAIN image_to_agent /\ image_to_agent[img] \in agents
          IN /\ last_call'.flag = found
             /\ IF found THEN RemovedOnly(image_to_agent[img])
                         ELSE agents' = agents /\ image_to_agent' = image_to_agent
    /\ Completed("destroy_agent") =>
          LET a == last_call'.agent
              found == a \in agents
          IN /\ last_call'.flag = found
             /\ IF found THEN RemovedOnly(a)
                         ELSE agents' = agents /\ image_to_agent' = image_to_agent

\* C31: after any sequence of run_image, stop_image, destroy_agent and
\* destroy_all_agents the image -> agent map is injective and maps exactly the
\* registered agents; stop_image and destroy_agent return true exactly when an
\* agent was found, remove that agent and its mapping, and change nothing else
C31_MapsAgree ==
    /\ [](Injective(image_to_agent) /\ MappedAgents = agents)
    /\ [][C31_Step]_vars

\* destroy_agent found its agent while another image stayed mapped
C31_Witness ==
    /\ last_call.op = "destroy_agent"
    /\ last_call.flag
    /\ last_call.agent \notin agents
    /\ agents # {}

\* C32: the session of an agent is destroyed with the agent: the sessions the
\* container holds (get_session, list_sessions) are those of its live agents
C32_SessionDestroyedWithAgent == sessions = agents

\* C33: a destroyed agent leaves no subscription on the bus: when the
\* container has no agent left, the bus holds as many subscriptions as before
\* the first run_image, none
C33_BusReleased == agents = {} => Len(b_subs) = 0

\* the loop tasks of the agent that are still running and that nobody has
\* asked to cancel
LiveTasks == {t \in DOMAIN tasks : ~TaskDone(t) /\ ~tasks[t].cancel_requested}

\* C34: at most one agentic-loop task of the agent is in flight, and it is the
\* one the Effector tracks in _current_task, so that interrupt and destroy
\* reach every task that can still emit
C34_OneLoopInFlight == LiveTasks \subseteq {current_task}

C35_Step ==
    Completed("run_image") => runtime_agents'[last_call'.agent].lifecycle # "destroyed"

\* C35: the agent run_image returns, reused or new, does not have lifecycle
\* destroyed, whatever was called on the container and on its agents before
C35_RunImageReturnsLive == [][C35_Step]_vars

\* an iterator of consume() took the head of the queue in this step and
\* yielded it to nobody
Discarded ==
    /\ eb_queue # <<>>
    /\ eb_queue' = Tail(eb_queue)
    /\ eb_loop' = eb_loop
    /\ eb_yielded' = eb_yielded

\* C36: with several consume() iterators active, no iterator takes from the
\* queue and drops an event that the filters of another active iterator pass
C36_Step ==
    Discarded => \A r \in Readers : eb_reader[r].active => ~Passes(eb_reader[r], Head(eb_queue))

C36_NoEventLost == [][C36_Step]_vars

\* every published event has been taken from the queue and nothing is being
\* dispatched or put
AllTaken ==
    /\ eb_queue = <<>>
    /\ eb_loop.pc # "dispatching"
    /\ Blocked = {}

\* C37: once every published event has been taken from the queue by the loop
\* or by consume(), a call of wait_empty returns
C37_WaitEmptyReturns == AllTaken => JoinReturns

\* C38: the session is in state processing only while a send_message or a
\* submit_tool_results call is in progress on it
C38_ProcessingHasCall ==
    l_state = "processing" => \E p \in Handlers : AwaitingBackend(p)

\* the message carries the results of tool calls
IsToolResults(m) == m.role = "user" /\ m.tool_calls # <<>>

\* C39: every assistant message with tool calls is the last message of the
\* session or is followed at once by the user message with the results of its
\* calls, each call having a result
C39_ToolTurnsPaired ==
    \A k \in DOMAIN l_messages :
        (l_messages[k].role = "assistant" /\ l_messages[k].tool_calls # <<>>) =>
            \/ k = Len(l_messages)
            \/ /\ IsToolResults(l_messages[k + 1])
               /\ \A i \in DOMAIN l_messages[k].tool_calls :
                     \E j \in DOMAIN l_messages[k + 1].tool_calls :
                        l_messages[k + 1].tool_calls[j].id = l_messages[k].tool_calls[i].id

\* ---- Runtime.shutdown ----

C40_Step ==
    /\ Completed("shutdown") =>
          /\ \A a \in DOMAIN runtime_agents' : runtime_agents'[a].lifecycle = "destroyed"
          /\ agents' = {}
          /\ rt_containers' = {}
          /\ b_destroyed' /\ b_subs' = <<>>
          /\ rt_shutdown'
    /\ (rt_shutdown /\ Completed("shutdown")) =>
          UNCHANGED <<agents, image_to_agent, sessions, runtime_agents, rtVars, busVars>>
    /\ (rt_shutdown /\ Completed("create_container")) =>
          ~last_call'.flag /\ rt_containers' = {}
    /\ rt_shutdown => b_runs' = b_runs

\* C40: after shutdown every agent the container registered is destroyed, the
\* runtime holds no container, the bus calls no subscriber for any event,
\* create_container raises, and a second shutdown changes nothing
C40_ShutdownComplete == [][C40_Step]_vars

\* a second shutdown after one that destroyed an agent and a subscriber's
\* subscription, with an event emitted in between
C40_Witness ==
    /\ rt_shutdown
    /\ last_call.op = "shutdown"
    /\ ncalls >= 4
    /\ runtime_agents # EmptyDict
    /\ b_next_id > 3
    /\ b_nemits > 0
====
